---- MODULE Spec2Model ----
(***************************************************************************)
(* A model of importer/sync_wp_to_bmlt_v4.py: the WordPress -> BMLT        *)
(* importer.  Text is modelled as sequences of one-character strings, so   *)
(* that stripping, searching, splitting and formatting are computed the    *)
(* way the Python code computes them.                                      *)
(***************************************************************************)
EXTENDS Integers, Sequences, FiniteSets, TLC

(***************************************************************************)
(* Text primitives (Python str methods used by the importer).              *)
(***************************************************************************)

\* Characters str.strip() removes and \s matches.
IsSpace(c) == c \in {" ", "\n", "\t", "\r"}

Digits == <<"0", "1", "2", "3", "4", "5", "6", "7", "8", "9">>

IsDigit(c) == \E i \in 1..10 : Digits[i] = c

DigitVal(c) == (CHOOSE i \in 1..10 : Digits[i] = c) - 1

UpperLetters == <<"A", "B", "C", "D", "E", "F", "G", "H", "I", "J", "K", "L", "M",
                  "N", "O", "P", "Q", "R", "S", "T", "U", "V", "W", "X", "Y", "Z">>

LowerLetters == <<"a", "b", "c", "d", "e", "f", "g", "h", "i", "j", "k", "l", "m",
                  "n", "o", "p", "q", "r", "s", "t", "u", "v", "w", "x", "y", "z">>

\* Word characters of the regular expressions (\w, and so \b).
IsWord(c) ==
    \/ IsDigit(c)
    \/ c = "_"
    \/ \E i \in 1..26 : UpperLetters[i] = c \/ LowerLetters[i] = c
    \/ c \in {"U+00E4", "U+00F6"}

LowerChar(c) ==
    IF \E i \in 1..26 : UpperLetters[i] = c
    THEN LowerLetters[CHOOSE i \in 1..26 : UpperLetters[i] = c]
    ELSE c

\* str.lower()
Lower(s) == [i \in 1..Len(s) |-> LowerChar(s[i])]

RECURSIVE LStrip(_)
LStrip(s) == IF s # <<>> /\ IsSpace(Head(s)) THEN LStrip(Tail(s)) ELSE s

RECURSIVE RStrip(_)
RStrip(s) ==
    IF s # <<>> /\ IsSpace(s[Len(s)]) THEN RStrip(SubSeq(s, 1, Len(s) - 1)) ELSE s

\* str.strip()
Strip(s) == RStrip(LStrip(s))

\* s[i:].startswith(sub), i counted from 1
StartsWithAt(s, sub, i) ==
    /\ i + Len(sub) - 1 <= Len(s)
    /\ SubSeq(s, i, i + Len(sub) - 1) = sub

\* str.startswith
StartsWith(s, sub) == StartsWithAt(s, sub, 1)

\* sub in s
Contains(s, sub) == \E i \in 1..(Len(s) - Len(sub) + 1) : StartsWithAt(s, sub, i)

\* str.replace(old, new), old non-empty: leftmost occurrences, not overlapping
RECURSIVE Replace(_, _, _)
Replace(s, old, new) ==
    IF s = <<>> THEN <<>>
    ELSE IF StartsWith(s, old)
         THEN new \o Replace(SubSeq(s, Len(old) + 1, Len(s)), old, new)
         ELSE <<Head(s)>> \o Replace(Tail(s), old, new)

\* str.split(c) for a one-character separator: a sequence of pieces
RECURSIVE Split(_, _)
Split(s, c) ==
    IF \E i \in 1..Len(s) : s[i] = c
    THEN LET i == CHOOSE k \in 1..Len(s) : s[k] = c /\ \A j \in 1..(k - 1) : s[j] # c
         IN  <<SubSeq(s, 1, i - 1)>> \o Split(SubSeq(s, i + 1, Len(s)), c)
    ELSE <<s>>

\* sep.join(parts)
RECURSIVE Join(_, _)
Join(parts, sep) ==
    IF parts = <<>> THEN <<>>
    ELSE IF Len(parts) = 1 THEN parts[1]
    ELSE parts[1] \o sep \o Join(Tail(parts), sep)

\* [p for p in parts if keep(p)] for the emptiness tests of the code
RECURSIVE NonEmpty(_)
NonEmpty(parts) ==
    IF parts = <<>> THEN <<>>
    ELSE IF Head(parts) # <<>> THEN <<Head(parts)>> \o NonEmpty(Tail(parts))
    ELSE NonEmpty(Tail(parts))

\* str.isdigit() on the ASCII digits
IsDigitStr(s) == s # <<>> /\ \A i \in 1..Len(s) : IsDigit(s[i])

RECURSIVE DigitsVal(_)
DigitsVal(s) == IF s = <<>> THEN 0 ELSE 10 * DigitsVal(SubSeq(s, 1, Len(s) - 1)) + DigitVal(s[Len(s)])

\* int(s) succeeds: optional surrounding whitespace, optional sign, digits
IntOk(s) ==
    LET t == Strip(s)
        u == IF t # <<>> /\ Head(t) \in {"+", "-"} THEN Tail(t) ELSE t
    IN  IsDigitStr(u)

\* int(s) where IntOk(s)
IntVal(s) ==
    LET t == Strip(s)
    IN  IF Head(t) = "-" THEN 0 - DigitsVal(Tail(t))
        ELSE IF Head(t) = "+" THEN DigitsVal(Tail(t))
        ELSE DigitsVal(t)

\* str(n) for n >= 0
RECURSIVE NatStr(_)
NatStr(n) == IF n < 10 THEN <<Digits[n + 1]>> ELSE NatStr(n \div 10) \o <<Digits[(n % 10) + 1]>>

\* str(n)
IntStr(n) == IF n < 0 THEN <<"-">> \o NatStr(0 - n) ELSE NatStr(n)

\* f"{n:02d}": zero-padded to a width of two, the sign counted in the width
Fmt02(n) == IF 0 <= n /\ n < 10 THEN <<"0">> \o NatStr(n) ELSE IntStr(n)

(***************************************************************************)
(* Configuration constants of the importer.                                *)
(***************************************************************************)

COMMENTS_MAX == 512

VENUE_IN_PERSON == 1

VENUE_VIRTUAL == 2

VENUE_HYBRID == 3

\* The one character U+2026 that truncate_comments appends.
Ellipsis == "U+2026"

\* WEEKDAY_MAP as (name, index) pairs
WEEKDAY_MAP ==
    << <<<<"S", "u", "n", "n", "u", "n", "t", "a", "i">>, 0>>,
       <<<<"M", "a", "a", "n", "a", "n", "t", "a", "i">>, 1>>,
       <<<<"T", "i", "i", "s", "t", "a", "i">>, 2>>,
       <<<<"K", "e", "s", "k", "i", "v", "i", "i", "k", "k", "o">>, 3>>,
       <<<<"T", "o", "r", "s", "t", "a", "i">>, 4>>,
       <<<<"P", "e", "r", "j", "a", "n", "t", "a", "i">>, 5>>,
       <<<<"L", "a", "u", "a", "n", "t", "a", "i">>, 6>> >>

\* WEEKDAY_MAP.get(name) is not None
WeekdayKnown(name) == \E i \in 1..Len(WEEKDAY_MAP) : WEEKDAY_MAP[i][1] = name

\* WEEKDAY_MAP[name]
WeekdayIndex(name) == WEEKDAY_MAP[CHOOSE i \in 1..Len(WEEKDAY_MAP) : WEEKDAY_MAP[i][1] = name][2]

\* FORMAT_KEY_MAP as (token, key) pairs
FORMAT_KEY_MAP ==
    << <<<<"s", "u", "o", "m", "i">>, <<"F", "I", "N">>>>,
       <<<<"e", "n", "g", "l", "a", "n", "t", "i">>, <<"E", "N", "G">>>>,
       <<<<"v", "e", "n", "U+00E4", "j", "U+00E4">>, <<"L", "/", "R">>>>,
       <<<<"A", "v", "o", "i", "n">>, <<"O">>>>,
       <<<<"S", "u", "l", "j", "e", "t", "t", "u">>, <<"C">>>>,
       <<<<"M", "e", "d", "i", "t", "a", "a", "t", "i", "o">>, <<"M", "E">>>>,
       <<<<"P", "u", "h", "u", "j", "a", "k", "o", "k", "o", "u", "s">>, <<"S", "o">>>>,
       <<<<"A", "s", "k", "e", "l", "t", "y", "U+00F6", "k", "o", "k", "o", "u", "s">>, <<"S", "t">>>>,
       <<<<"H", "y", "b", "r", "i", "d", "i">>, <<"H", "Y">>>> >>

\* FORMAT_KEY_MAP.get(t), the empty text standing for None
FormatKey(t) ==
    IF \E i \in 1..Len(FORMAT_KEY_MAP) : FORMAT_KEY_MAP[i][1] = t
    THEN FORMAT_KEY_MAP[CHOOSE i \in 1..Len(FORMAT_KEY_MAP) : FORMAT_KEY_MAP[i][1] = t][2]
    ELSE <<>>

\* DEFAULT_LAT, DEFAULT_LON in units of 0.0001 degree
DEFAULT_LAT == 601699

DEFAULT_LON == 249384

\* DEFAULT_PROVINCE
DEFAULT_PROVINCE == <<"U", "u", "s", "i", "m", "a", "a">>

\* SERVICE_BODY_ID
SERVICE_BODY_ID == 1

(***************************************************************************)
(* Utilities.                                                              *)
(***************************************************************************)

\* normalize_time(val)
normalize_time(val) ==
    IF val = <<>> THEN <<>>
    ELSE LET s == Replace(Strip(val), <<".">>, <<":">>)
             parts == Split(s, ":")
         IN  IF Len(parts) = 1 /\ IsDigitStr(parts[1])
             THEN Fmt02(IntVal(parts[1])) \o <<":", "0", "0">>
             ELSE IF Len(parts) >= 2
                  THEN IF IntOk(parts[1]) /\ IntOk(parts[2])
                       THEN Fmt02(IntVal(parts[1])) \o <<":">> \o Fmt02(IntVal(parts[2]))
                       ELSE s
                  ELSE s

\* duration_hm(minutes_val)
duration_hm(minutes_val) ==
    LET parsed == IF IntOk(minutes_val) THEN IntVal(minutes_val) ELSE 90
        mins == IF parsed <= 0 THEN 90 ELSE parsed
    IN  Fmt02(mins \div 60) \o <<":">> \o Fmt02(mins % 60)

\* The character loop of strip_html_like: drop "<", ">" and what is between.
RECURSIVE DropTags(_, _)
DropTags(txt, in_tag) ==
    IF txt = <<>> THEN <<>>
    ELSE IF Head(txt) = "<" THEN DropTags(Tail(txt), TRUE)
    ELSE IF Head(txt) = ">" THEN DropTags(Tail(txt), FALSE)
    ELSE IF in_tag THEN DropTags(Tail(txt), in_tag)
    ELSE <<Head(txt)>> \o DropTags(Tail(txt), in_tag)

\* [line.strip() for line in lines if line.strip()]
RECURSIVE StrippedLines(_)
StrippedLines(lines) ==
    IF lines = <<>> THEN <<>>
    ELSE IF Strip(Head(lines)) # <<>>
         THEN <<Strip(Head(lines))>> \o StrippedLines(Tail(lines))
         ELSE StrippedLines(Tail(lines))

\* strip_html_like(s)
strip_html_like(s) ==
    IF s = <<>> THEN <<>>
    ELSE LET br1 == <<"<", "b", "r", " ", "/", ">">>
             br2 == <<"<", "b", "r", "/", ">">>
             br3 == <<"<", "b", "r", ">">>
             txt == Replace(Replace(Replace(s, br1, <<"\n">>), br2, <<"\n">>), br3, <<"\n">>)
             cleaned == Replace(Replace(DropTags(txt, FALSE), <<"\r", "\n">>, <<"\n">>),
                                <<"\r">>, <<"\n">>)
         IN  Strip(Join(StrippedLines(Split(cleaned, "\n")), <<"\n">>))

\* A variant that keeps COMMENTS_MAX characters before the ellipsis.
truncate_commentsKeepingMax(s) ==
    IF s = <<>> THEN <<>>
    ELSE IF Len(s) <= COMMENTS_MAX THEN s
    ELSE IF COMMENTS_MAX <= 3 THEN SubSeq(s, 1, COMMENTS_MAX)
    ELSE SubSeq(s, 1, COMMENTS_MAX) \o <<Ellipsis>>

\* truncate_comments(s)
truncate_comments(s) ==
    IF s = <<>> THEN <<>>
    ELSE IF Len(s) <= COMMENTS_MAX THEN s
    ELSE IF COMMENTS_MAX <= 3 THEN SubSeq(s, 1, COMMENTS_MAX)
    ELSE SubSeq(s, 1, COMMENTS_MAX - 1) \o <<Ellipsis>>

\* split_tokens(v) for a string v
split_tokens(v) ==
    IF v = <<>> THEN <<>>
    ELSE LET s1 == Replace(v, <<" ", "j", "a", " ">>, <<",">>)
             s2 == Replace(s1, <<" ", "&", " ">>, <<",">>)
             s3 == Replace(s2, <<";">>, <<",">>)
         IN  StrippedLines(Split(s3, ","))

\* is_virtual(obj)
is_virtual(obj) ==
    LET street == Lower(obj.katuosoite)
        city == Lower(obj.kaupunki)
        link == Lower(obj.karttalinkki)
    IN  \/ Contains(city, <<"i", "n", "t", "e", "r", "n", "e", "t">>)
        \/ Contains(street, <<"z", "o", "o", "m">>)
        \/ Contains(link, <<"z", "o", "o", "m">>)
        \/ Contains(link, <<"t", "e", "a", "m", "s">>)

\* Number of characters from index i on that are not whitespace (\S*).
NonSpaceRun(s, i) ==
    CHOOSE n \in 0..(Len(s) - i + 1) :
        /\ \A k \in i..(i + n - 1) : ~IsSpace(s[k])
        /\ (i + n > Len(s) \/ IsSpace(s[i + n]))

\* str.rstrip(").,]")
RECURSIVE RStripPunct(_)
RStripPunct(s) ==
    IF s # <<>> /\ s[Len(s)] \in {")", ".", ",", "]"}
    THEN RStripPunct(SubSeq(s, 1, Len(s) - 1))
    ELSE s

\* (https?://\S+) matches at index i
UrlAt(s, i) ==
    \/ StartsWithAt(s, <<"h", "t", "t", "p", ":", "/", "/">>, i) /\ NonSpaceRun(s, i) > 7
    \/ StartsWithAt(s, <<"h", "t", "t", "p", "s", ":", "/", "/">>, i) /\ NonSpaceRun(s, i) > 8

\* extract_first_url(text)
extract_first_url(text) ==
    IF \E i \in 1..Len(text) : UrlAt(text, i)
    THEN LET i == CHOOSE k \in 1..Len(text) :
                      UrlAt(text, k) /\ \A j \in 1..(k - 1) : ~UrlAt(text, j)
         IN  RStripPunct(SubSeq(text, i, i + NonSpaceRun(text, i) - 1))
    ELSE <<>>

\* Number of digits from index i on.
DigitRun(s, i) ==
    CHOOSE n \in 0..(Len(s) - i + 1) :
        /\ \A k \in i..(i + n - 1) : IsDigit(s[k])
        /\ (i + n > Len(s) \/ ~IsDigit(s[i + n]))

\* Number of characters of [\d\s\-] from index i on.
LooseRun(s, i) ==
    CHOOSE n \in 0..(Len(s) - i + 1) :
        /\ \A k \in i..(i + n - 1) : IsDigit(s[k]) \/ IsSpace(s[k]) \/ s[k] = "-"
        /\ (i + n > Len(s) \/ ~(IsDigit(s[i + n]) \/ IsSpace(s[i + n]) \/ s[i + n] = "-"))

Min(a, b) == IF a <= b THEN a ELSE b

\* \b before index i, where s[i] is a word character
BoundaryBefore(s, i) == i = 1 \/ ~IsWord(s[i - 1])

\* Length of the match of (\+\d{6,15}|\b0\d{6,15}\b) at index i, 0 for none.
CompactPhoneAt(s, i) ==
    IF s[i] = "+" /\ DigitRun(s, i + 1) >= 6
    THEN 1 + Min(DigitRun(s, i + 1), 15)
    ELSE IF /\ s[i] = "0"
            /\ BoundaryBefore(s, i)
            /\ DigitRun(s, i + 1) >= 6
            /\ DigitRun(s, i + 1) <= 15
            /\ LET e == i + DigitRun(s, i + 1) IN e = Len(s) \/ ~IsWord(s[e + 1])
    THEN 1 + DigitRun(s, i + 1)
    ELSE 0

\* Length of the match of (\+\d[\d\s\-]{6,20}|\b0\d[\d\s\-]{6,20}) at index i.
LoosePhoneAt(s, i) ==
    IF /\ s[i] = "+" \/ (s[i] = "0" /\ BoundaryBefore(s, i))
       /\ i + 1 <= Len(s)
       /\ IsDigit(s[i + 1])
       /\ LooseRun(s, i + 2) >= 6
    THEN 2 + Min(LooseRun(s, i + 2), 20)
    ELSE 0

\* re.sub(r"[^\d\+]", "", m)
RECURSIVE KeepDigitsPlus(_)
KeepDigitsPlus(s) ==
    IF s = <<>> THEN <<>>
    ELSE IF IsDigit(Head(s)) \/ Head(s) = "+"
         THEN <<Head(s)>> \o KeepDigitsPlus(Tail(s))
         ELSE KeepDigitsPlus(Tail(s))

\* t.replace(" ", "").replace("-", "")
Compact(t) == Replace(Replace(t, <<" ">>, <<>>), <<"-">>, <<>>)

\* extract_phone_number(text)
extract_phone_number(text) ==
    IF text = <<>> THEN <<>>
    ELSE LET t == strip_html_like(text)
             compact == Compact(t)
         IN  IF \E i \in 1..Len(compact) : CompactPhoneAt(compact, i) > 0
             THEN LET i == CHOOSE k \in 1..Len(compact) :
                               /\ CompactPhoneAt(compact, k) > 0
                               /\ \A j \in 1..(k - 1) : CompactPhoneAt(compact, j) = 0
                  IN  SubSeq(compact, i, i + CompactPhoneAt(compact, i) - 1)
             ELSE IF \E i \in 1..Len(t) : LoosePhoneAt(t, i) > 0
             THEN LET i == CHOOSE k \in 1..Len(t) :
                               /\ LoosePhoneAt(t, k) > 0
                               /\ \A j \in 1..(k - 1) : LoosePhoneAt(t, j) = 0
                  IN  KeepDigitsPlus(SubSeq(t, i, i + LoosePhoneAt(t, i) - 1))
             ELSE <<>>

\* re.sub(r"\([^)]*\)", "", s)
RECURSIVE DropParens(_)
DropParens(s) ==
    IF s = <<>> THEN <<>>
    ELSE IF Head(s) = "(" /\ \E k \in 2..Len(s) : s[k] = ")"
         THEN LET e == CHOOSE k \in 2..Len(s) :
                           s[k] = ")" /\ \A j \in 2..(k - 1) : s[j] # ")"
              IN  DropParens(SubSeq(s, e + 1, Len(s)))
         ELSE <<Head(s)>> \o DropParens(Tail(s))

\* re.sub(r"\s+", " ", s)
RECURSIVE CollapseSpace(_)
CollapseSpace(s) ==
    IF s = <<>> THEN <<>>
    ELSE IF IsSpace(Head(s))
         THEN <<" ">> \o CollapseSpace(LStrip(s))
         ELSE <<Head(s)>> \o CollapseSpace(Tail(s))

\* _clean(s) of clean_geocode_query
GeoClean(s) ==
    IF s = <<>> THEN <<>>
    ELSE Strip(CollapseSpace(Replace(Strip(DropParens(Strip(s))), <<"/">>, <<" ">>)))

\* clean_geocode_query(street, postal, city, country)
clean_geocode_query(street, postal, city, country) ==
    Join(NonEmpty(<<GeoClean(street), GeoClean(postal), GeoClean(city), GeoClean(country)>>),
         <<",", " ">>)

(***************************************************************************)
(* BMLT API helpers.                                                       *)
(***************************************************************************)

\* The loop over translations in bmlt_get_formats: later keys overwrite.
RECURSIVE AddKeys(_, _, _)
AddKeys(by_key, translations, fid_int) ==
    IF translations = <<>> THEN by_key
    ELSE LET k == Strip(Head(translations))
         IN  AddKeys(IF k # <<>> THEN (k :> fid_int) @@ by_key ELSE by_key,
                     Tail(translations), fid_int)

\* A variant that takes the id 0 for no id when it collects the valid ids,
\* but not when it indexes the keys.
RECURSIVE FormatsLoopTruthy(_, _)
FormatsLoopTruthy(data, acc) ==
    IF data = <<>> THEN acc
    ELSE IF Head(data).id = <<>> THEN FormatsLoopTruthy(Tail(data), acc)
    ELSE FormatsLoopTruthy(Tail(data),
                           <<AddKeys(acc[1], Head(data).translations, Head(data).id[1]),
                             IF Head(data).id[1] # 0 THEN acc[2] \cup {Head(data).id[1]}
                             ELSE acc[2]>>)

\* The loop over data in bmlt_get_formats; acc is <<by_key, allowed_ids>>.
\* A format is [id |-> <<>> (None) or <<n>>, translations |-> keys].
RECURSIVE FormatsLoop(_, _)
FormatsLoop(data, acc) ==
    IF data = <<>> THEN acc
    ELSE LET f == Head(data)
         IN  IF f.id = <<>> THEN FormatsLoop(Tail(data), acc)
             ELSE FormatsLoop(Tail(data),
                              <<AddKeys(acc[1], f.translations, f.id[1]),
                                acc[2] \cup {f.id[1]}>>)

\* bmlt_get_formats(token) for a list response: <<by_key, allowed_ids>>
bmlt_get_formats(data) == FormatsLoop(data, <<<<>>, {}>>)

\* keys of build_format_ids: mapped tokens, first occurrence kept
RECURSIVE MapTokens(_, _)
MapTokens(tokens, keys) ==
    IF tokens = <<>> THEN keys
    ELSE LET key == FormatKey(Head(tokens))
         IN  MapTokens(Tail(tokens),
                       IF key # <<>> /\ \A i \in 1..Len(keys) : keys[i] # key
                       THEN Append(keys, key) ELSE keys)

\* The loop over keys in build_format_ids; acc is <<ids, missing_keys>>.
RECURSIVE ResolveKeys(_, _, _)
ResolveKeys(keys, format_key_to_id, acc) ==
    IF keys = <<>> THEN acc
    ELSE LET k == Head(keys)
             found == k \in DOMAIN format_key_to_id /\ format_key_to_id[k] # 0
         IN  ResolveKeys(Tail(keys), format_key_to_id,
                         IF found THEN <<Append(acc[1], format_key_to_id[k]), acc[2]>>
                         ELSE <<acc[1], Append(acc[2], k)>>)

KeyVM == <<"V", "M">>

KeyFIN == <<"F", "I", "N">>

\* build_format_ids, lines 384-400: keys
FormatKeys(obj) ==
    MapTokens(split_tokens(obj.rel_kokousmuodot) \o split_tokens(obj.rel_kokouskielet),
              IF is_virtual(obj) THEN <<KeyVM>> ELSE <<>>)

\* [fid for fid in ids if fid in allowed]
RECURSIVE KeepAllowed(_, _)
KeepAllowed(ids, allowed) ==
    IF ids = <<>> THEN <<>>
    ELSE IF Head(ids) \in allowed THEN <<Head(ids)>> \o KeepAllowed(Tail(ids), allowed)
    ELSE KeepAllowed(Tail(ids), allowed)

\* [fid for fid in ids if fid not in allowed]
RECURSIVE KeepRemoved(_, _)
KeepRemoved(ids, allowed) ==
    IF ids = <<>> THEN <<>>
    ELSE IF Head(ids) \notin allowed THEN <<Head(ids)>> \o KeepRemoved(Tail(ids), allowed)
    ELSE KeepRemoved(Tail(ids), allowed)

(***************************************************************************)
(* The source records the model draws its feeds from.                      *)
(***************************************************************************)

\* An in-person meeting with a full address.
RecInPerson ==
    [id |-> 1,
     title |-> <<"R", "y", "h", "m", "a">>,
     slug |-> <<"r", "y", "h", "m", "a">>,
     weekday |-> <<"M", "a", "a", "n", "a", "n", "t", "a", "i">>,
     alkamisaika |-> <<"1", "9">>,
     kesto |-> <<"9", "0">>,
     katuosoite |-> <<"K", "a", "t", "u", " ", "1">>,
     postinumero |-> <<>>,
     kaupunki |-> <<"O", "u", "l", "u">>,
     maa |-> <<>>,
     karttalinkki |-> <<>>,
     lisatiedot |-> <<>>,
     rel_kokousmuodot |-> <<"A", "v", "o", "i", "n">>,
     rel_kokouskielet |-> <<"s", "u", "o", "m", "i">>]

\* The same source identifier as RecInPerson with another start time.
RecInPersonEdited ==
    [id |-> 1,
     title |-> <<"R", "y", "h", "m", "a">>,
     slug |-> <<"r", "y", "h", "m", "a">>,
     weekday |-> <<"M", "a", "a", "n", "a", "n", "t", "a", "i">>,
     alkamisaika |-> <<"2", "0", ".", "3", "0">>,
     kesto |-> <<"9", "0">>,
     katuosoite |-> <<"K", "a", "t", "u", " ", "1">>,
     postinumero |-> <<>>,
     kaupunki |-> <<"O", "u", "l", "u">>,
     maa |-> <<>>,
     karttalinkki |-> <<>>,
     lisatiedot |-> <<>>,
     rel_kokousmuodot |-> <<"A", "v", "o", "i", "n">>,
     rel_kokouskielet |-> <<"s", "u", "o", "m", "i">>]

\* A virtual meeting (city says internet) with a phone number in its notes and no link.
RecVirtualPhone ==
    [id |-> 2,
     title |-> <<"R", "y", "h", "m", "a">>,
     slug |-> <<"r", "y", "h", "m", "a">>,
     weekday |-> <<" ", "T", "i", "i", "s", "t", "a", "i", " ">>,
     alkamisaika |-> <<"1", "8", ".", "3", "0">>,
     kesto |-> <<"6", "0">>,
     katuosoite |-> <<>>,
     postinumero |-> <<>>,
     kaupunki |-> <<"I", "n", "t", "e", "r", "n", "e", "t", " ", "G", "r", "o", "u", "p">>,
     maa |-> <<>>,
     karttalinkki |-> <<>>,
     lisatiedot |-> <<"S", "o", "i", "t", "a", " ", "0", "4", "0", " ", "1", "2", "3", " ", "4", "5", "6", "7">>,
     rel_kokousmuodot |-> <<>>,
     rel_kokouskielet |-> <<"s", "u", "o", "m", "i">>]

\* A virtual meeting with an absolute map link and a phone number in its notes.
RecVirtualBoth ==
    [id |-> 3,
     title |-> <<"R", "y", "h", "m", "a">>,
     slug |-> <<"r", "y", "h", "m", "a">>,
     weekday |-> <<"T", "o", "r", "s", "t", "a", "i">>,
     alkamisaika |-> <<"9">>,
     kesto |-> <<>>,
     katuosoite |-> <<>>,
     postinumero |-> <<>>,
     kaupunki |-> <<"i", "n", "t", "e", "r", "n", "e", "t">>,
     maa |-> <<>>,
     karttalinkki |-> <<"h", "t", "t", "p", "s", ":", "/", "/", "z", "o", "o", "m", ".", "u", "s", "/", "j", "/", "1">>,
     lisatiedot |-> <<"<", "p", ">", "t", "e", "l", " ", "+", "3", "5", "8", "4", "0", "1", "2", "3", "4", "5", "6", "7", "<", "/", "p", ">">>,
     rel_kokousmuodot |-> <<"S", "u", "l", "j", "e", "t", "t", "u">>,
     rel_kokouskielet |-> <<"e", "n", "g", "l", "a", "n", "t", "i">>]

\* A virtual meeting (street says zoom) with neither link nor phone.
RecVirtualNoContact ==
    [id |-> 4,
     title |-> <<"R", "y", "h", "m", "a">>,
     slug |-> <<"r", "y", "h", "m", "a">>,
     weekday |-> <<"M", "a", "a", "n", "a", "n", "t", "a", "i">>,
     alkamisaika |-> <<"1", "9">>,
     kesto |-> <<"9", "0">>,
     katuosoite |-> <<"Z", "o", "o", "m">>,
     postinumero |-> <<>>,
     kaupunki |-> <<>>,
     maa |-> <<>>,
     karttalinkki |-> <<"z", "o", "o", "m">>,
     lisatiedot |-> <<>>,
     rel_kokousmuodot |-> <<>>,
     rel_kokouskielet |-> <<"s", "u", "o", "m", "i">>]

\* A hybrid-marked meeting that is not virtual and has no street.
RecNoStreet ==
    [id |-> 5,
     title |-> <<"R", "y", "h", "m", "a">>,
     slug |-> <<"r", "y", "h", "m", "a">>,
     weekday |-> <<"M", "a", "a", "n", "a", "n", "t", "a", "i">>,
     alkamisaika |-> <<"1", "9">>,
     kesto |-> <<"9", "0">>,
     katuosoite |-> <<>>,
     postinumero |-> <<"9", "0", "1", "0", "0">>,
     kaupunki |-> <<"O", "u", "l", "u">>,
     maa |-> <<>>,
     karttalinkki |-> <<>>,
     lisatiedot |-> <<>>,
     rel_kokousmuodot |-> <<"H", "y", "b", "r", "i", "d", "i">>,
     rel_kokouskielet |-> <<"s", "u", "o", "m", "i">>]

\* An unknown weekday, and virtual without contact as well.
RecBadDay ==
    [id |-> 6,
     title |-> <<"R", "y", "h", "m", "a">>,
     slug |-> <<"r", "y", "h", "m", "a">>,
     weekday |-> <<"F", "u", "n", "d", "a", "y">>,
     alkamisaika |-> <<"1", "9">>,
     kesto |-> <<"9", "0">>,
     katuosoite |-> <<>>,
     postinumero |-> <<>>,
     kaupunki |-> <<"I", "n", "t", "e", "r", "n", "e", "t">>,
     maa |-> <<>>,
     karttalinkki |-> <<>>,
     lisatiedot |-> <<>>,
     rel_kokousmuodot |-> <<>>,
     rel_kokouskielet |-> <<"s", "u", "o", "m", "i">>]

\* A blank start time on a meeting with no street.
RecNoTime ==
    [id |-> 6,
     title |-> <<"R", "y", "h", "m", "a">>,
     slug |-> <<"r", "y", "h", "m", "a">>,
     weekday |-> <<"M", "a", "a", "n", "a", "n", "t", "a", "i">>,
     alkamisaika |-> <<" ">>,
     kesto |-> <<"9", "0">>,
     katuosoite |-> <<>>,
     postinumero |-> <<>>,
     kaupunki |-> <<"O", "u", "l", "u">>,
     maa |-> <<>>,
     karttalinkki |-> <<>>,
     lisatiedot |-> <<>>,
     rel_kokousmuodot |-> <<>>,
     rel_kokouskielet |-> <<"s", "u", "o", "m", "i">>]

\* Hybrid-marked and virtual, no street: a relative map link, the URL is in the notes.
RecHybridVirtual ==
    [id |-> 7,
     title |-> <<"R", "y", "h", "m", "a">>,
     slug |-> <<"r", "y", "h", "m", "a">>,
     weekday |-> <<"M", "a", "a", "n", "a", "n", "t", "a", "i">>,
     alkamisaika |-> <<"1", "9">>,
     kesto |-> <<"9", "0">>,
     katuosoite |-> <<>>,
     postinumero |-> <<>>,
     kaupunki |-> <<"I", "n", "t", "e", "r", "n", "e", "t">>,
     maa |-> <<>>,
     karttalinkki |-> <<"z", "o", "o", "m">>,
     lisatiedot |-> <<"L", "i", "n", "k", "k", "i", ":", " ", "h", "t", "t", "p", "s", ":", "/", "/", "x", ".", "f", "i", "/", "a", ".">>,
     rel_kokousmuodot |-> <<"A", "v", "o", "i", "n", " ", "j", "a", " ", "H", "y", "b", "r", "i", "d", "i">>,
     rel_kokouskielet |-> <<>>]

\* Hybrid-marked, not virtual, the address of RecInPerson with an aside; only the hybrid token.
RecHybrid ==
    [id |-> 8,
     title |-> <<"R", "y", "h", "m", "a">>,
     slug |-> <<"r", "y", "h", "m", "a">>,
     weekday |-> <<"L", "a", "u", "a", "n", "t", "a", "i">>,
     alkamisaika |-> <<"1", "9">>,
     kesto |-> <<"9", "0">>,
     katuosoite |-> <<"K", "a", "t", "u", " ", "1", " ", "(", "p", "i", "h", "a", ")">>,
     postinumero |-> <<>>,
     kaupunki |-> <<"O", "u", "l", "u">>,
     maa |-> <<>>,
     karttalinkki |-> <<>>,
     lisatiedot |-> <<>>,
     rel_kokousmuodot |-> <<"H", "y", "b", "r", "i", "d", "i">>,
     rel_kokouskielet |-> <<>>]

\* Hybrid-marked and virtual (street says zoom) with a full address and an absolute link.
RecHybridZoom ==
    [id |-> 9,
     title |-> <<"R", "y", "h", "m", "a">>,
     slug |-> <<"r", "y", "h", "m", "a">>,
     weekday |-> <<"M", "a", "a", "n", "a", "n", "t", "a", "i">>,
     alkamisaika |-> <<"1", "9">>,
     kesto |-> <<"9", "0">>,
     katuosoite |-> <<"Z", "o", "o", "m", "k", "a", "t", "u", " ", "2">>,
     postinumero |-> <<"0", "2", "1", "0", "0">>,
     kaupunki |-> <<>>,
     maa |-> <<>>,
     karttalinkki |-> <<"h", "t", "t", "p", "s", ":", "/", "/", "t", "e", "a", "m", "s", ".", "x", "/", "1">>,
     lisatiedot |-> <<>>,
     rel_kokousmuodot |-> <<"H", "y", "b", "r", "i", "d", "i">>,
     rel_kokouskielet |-> <<"e", "n", "g", "l", "a", "n", "t", "i">>]

\* An in-person meeting whose only token is a language the registry may lack.
RecEnglishOnly ==
    [id |-> 10,
     title |-> <<"R", "y", "h", "m", "a">>,
     slug |-> <<"r", "y", "h", "m", "a">>,
     weekday |-> <<"S", "u", "n", "n", "u", "n", "t", "a", "i">>,
     alkamisaika |-> <<"7", ":", "5">>,
     kesto |-> <<"a", "b", "c">>,
     katuosoite |-> <<"T", "i", "e", " ", "3">>,
     postinumero |-> <<"0", "0", "1", "0", "0">>,
     kaupunki |-> <<>>,
     maa |-> <<"S", "u", "o", "m", "i">>,
     karttalinkki |-> <<>>,
     lisatiedot |-> <<>>,
     rel_kokousmuodot |-> <<>>,
     rel_kokouskielet |-> <<"e", "n", "g", "l", "a", "n", "t", "i">>]

\* A meeting held on Teams, said so in the street field, with a start time
\* in words and a duration of a hundred hours.
RecTeamsStreet ==
    [id |-> 11,
     title |-> <<"R", "y", "h", "m", "a">>,
     slug |-> <<"r", "y", "h", "m", "a">>,
     weekday |-> <<"T", "i", "i", "s", "t", "a", "i">>,
     alkamisaika |-> <<"k", "l", "o", " ", "1", "9">>,
     kesto |-> <<"6", "0", "0", "0">>,
     katuosoite |-> <<"T", "e", "a", "m", "s">>,
     postinumero |-> <<>>,
     kaupunki |-> <<"O", "u", "l", "u">>,
     maa |-> <<>>,
     karttalinkki |-> <<>>,
     lisatiedot |-> <<>>,
     rel_kokousmuodot |-> <<"A", "v", "o", "i", "n">>,
     rel_kokouskielet |-> <<"s", "u", "o", "m", "i">>]

SourceRecordList ==
    <<RecInPerson,
      RecInPersonEdited,
      RecVirtualPhone,
      RecVirtualBoth,
      RecVirtualNoContact,
      RecNoStreet,
      RecBadDay,
      RecNoTime,
      RecHybridVirtual,
      RecHybrid,
      RecHybridZoom,
      RecEnglishOnly,
      RecTeamsStreet>>

SourceRecords == {SourceRecordList[i] : i \in 1..Len(SourceRecordList)}

(***************************************************************************)
(* What the collaborators may answer.                                      *)
(***************************************************************************)

\* Responses of the registry's /formats endpoint (lists of formats).
FormatsFull ==
    << [id |-> <<1>>, translations |-> <<KeyFIN, <<"f", "i">>>>],
       [id |-> <<2>>, translations |-> << <<"O">> >>],
       [id |-> <<3>>, translations |-> << <<"C">>, <<>> >>],
       [id |-> <<4>>, translations |-> << KeyVM >>],
       [id |-> <<5>>, translations |-> << <<" ", "H", "Y", " ">> >>] >>

\* A format without id is passed over: no default-language key is left.
FormatsNoFin ==
    << [id |-> <<>>, translations |-> << KeyFIN >>],
       [id |-> <<4>>, translations |-> << KeyVM >>],
       [id |-> <<5>>, translations |-> << <<"H", "Y">> >>] >>

\* The default-language key carries the id 0.
FormatsFinZero ==
    << [id |-> <<0>>, translations |-> << KeyFIN >>],
       [id |-> <<4>>, translations |-> << KeyVM >>] >>

FormatResponses == {FormatsFull, FormatsNoFin, FormatsFinZero}

\* Coordinate pairs the geocoding service may return (0.0001 degree).
GeocodeAnswers == {<<650121, 254651>>}

\* HTTP status codes the publish endpoint may reject a payload with.
HttpErrorCodes == {422}

(***************************************************************************)
(* Bounds of the model.                                                    *)
(***************************************************************************)

\* Records in the source feed.
MaxRecords == 2

\* Runs of the importer, one after the other on the same data directory.
MaxRuns == 2

\* Feeds of a single run: any records, in any order, repeats included.
Feeds == UNION {[1..n -> SourceRecords] : n \in 0..MaxRecords}

\* Feeds of repeated runs: a plain record, an edit of it under the same
\* identifier and address, and a virtual record.
RerunRecords == {RecInPerson, RecInPersonEdited, RecVirtualPhone}

RerunFeeds == UNION {[1..n -> RerunRecords] : n \in 0..MaxRecords}

(***************************************************************************)
(* main: the per-record computations.                                      *)
(***************************************************************************)

Http == <<"h", "t", "t", "p", ":", "/", "/">>

Https == <<"h", "t", "t", "p", "s", ":", "/", "/">>

Hybridi == <<"H", "y", "b", "r", "i", "d", "i">>

Finland == <<"F", "i", "n", "l", "a", "n", "d">>

\* main, lines 447-477 and 518: what is computed from the record alone
RecordLocals(obj) ==
    LET weekday_fi == Strip(obj.weekday)
        street == Strip(obj.katuosoite)
        postal == Strip(obj.postinumero)
        city == Strip(obj.kaupunki)
        country == IF Strip(obj.maa) # <<>> THEN Strip(obj.maa) ELSE Finland
        map_url == Strip(obj.karttalinkki)
        comments_raw == strip_html_like(obj.lisatiedot)
        virtual == is_virtual(obj)
        from_map == IF virtual /\ (StartsWith(map_url, Http) \/ StartsWith(map_url, Https))
                    THEN map_url ELSE <<>>
        title == IF obj.title # <<>> THEN obj.title
                 ELSE IF obj.slug # <<>> THEN obj.slug
                 ELSE <<"W", "P", "-">> \o IntStr(obj.id)
    IN  [name |-> strip_html_like(title),
         day_known |-> WeekdayKnown(weekday_fi),
         day |-> IF WeekdayKnown(weekday_fi) THEN WeekdayIndex(weekday_fi) ELSE -1,
         start_time |-> normalize_time(obj.alkamisaika),
         duration |-> duration_hm(obj.kesto),
         street |-> street,
         postal |-> postal,
         city |-> city,
         country |-> country,
         map_url |-> map_url,
         comments |-> truncate_comments(comments_raw),
         virtual |-> virtual,
         virtual_link |-> IF virtual /\ from_map = <<>>
                          THEN extract_first_url(comments_raw) ELSE from_map,
         phone_number |-> IF virtual THEN extract_phone_number(obj.lisatiedot) ELSE <<>>,
         hybrid_marker |-> obj.rel_kokousmuodot # <<>>
                           /\ Contains(obj.rel_kokousmuodot, Hybridi),
         keys |-> FormatKeys(obj),
         q |-> clean_geocode_query(street, postal, city, country),
         wp_key |-> ToString(obj.id),
         externalId |-> <<"w", "p", ":">> \o IntStr(obj.id)]

\* RecordLocals, computed once for every record of the model.
RECURSIVE LocalsTable(_)
LocalsTable(list) ==
    IF list = <<>> THEN <<>>
    ELSE (Head(list) :> RecordLocals(Head(list))) @@ LocalsTable(Tail(list))

Locals == LocalsTable(SourceRecordList)

\* build_format_ids(obj, format_key_to_id): <<ids, missing_keys>>
build_format_ids(obj, format_key_to_id) ==
    ResolveKeys(Locals[obj].keys, format_key_to_id, <<<<>>, <<>>>>)

\* A variant without the default-language fallback.
FinFallbackNever(filtered, format_key_to_id, allowed_format_ids) == filtered

\* main, lines 503-506: the FIN fallback on an empty filtered list
FinFallback(filtered, format_key_to_id, allowed_format_ids) ==
    IF /\ filtered = <<>>
       /\ KeyFIN \in DOMAIN format_key_to_id
       /\ format_key_to_id[KeyFIN] \in allowed_format_ids
    THEN <<format_key_to_id[KeyFIN]>>
    ELSE filtered

\* main, lines 498-506: the format ids after the post-filter and the FIN fallback
ResolveFormats(obj, format_key_to_id, allowed_format_ids) ==
    FinFallback(KeepAllowed(build_format_ids(obj, format_key_to_id)[1], allowed_format_ids),
                format_key_to_id, allowed_format_ids)

\* A variant that lets the hybrid marker alone decide.
VenueOfMarkerOnly(L) ==
    IF L.hybrid_marker THEN VENUE_HYBRID
    ELSE IF L.virtual THEN VENUE_VIRTUAL ELSE VENUE_IN_PERSON

\* main, lines 491-496: venue_type from the values of the iteration
VenueOf(L) ==
    IF L.hybrid_marker
    THEN IF L.street # <<>> /\ (L.city # <<>> \/ L.postal # <<>>)
         THEN VENUE_HYBRID ELSE VENUE_VIRTUAL
    ELSE IF L.virtual THEN VENUE_VIRTUAL ELSE VENUE_IN_PERSON

VenueType(obj) == VenueOf(Locals[obj])

\* A variant without the guard on the virtual contact.
SkipReasonOfNoContact(L, format_ids) ==
    IF ~L.day_known \/ L.start_time = <<>> THEN "missing_day_or_time"
    ELSE IF ~L.virtual /\ (L.street = <<>> \/ (L.city = <<>> /\ L.postal = <<>>))
         THEN "in_person_missing_address"
    ELSE IF format_ids = <<>> THEN "no_valid_formats"
    ELSE ""

\* A variant without the guard on the format ids.
SkipReasonOfNoFormats(L, format_ids) ==
    IF ~L.day_known \/ L.start_time = <<>> THEN "missing_day_or_time"
    ELSE IF L.virtual /\ L.virtual_link = <<>> /\ L.phone_number = <<>>
         THEN "virtual_missing_link_or_phone"
    ELSE IF ~L.virtual /\ (L.street = <<>> \/ (L.city = <<>> /\ L.postal = <<>>))
         THEN "in_person_missing_address"
    ELSE ""

\* A variant that looks at the format ids first.
SkipReasonOfFormatsFirst(L, format_ids) ==
    IF format_ids = <<>> THEN "no_valid_formats"
    ELSE IF ~L.day_known \/ L.start_time = <<>> THEN "missing_day_or_time"
    ELSE IF L.virtual /\ L.virtual_link = <<>> /\ L.phone_number = <<>>
         THEN "virtual_missing_link_or_phone"
    ELSE IF ~L.virtual /\ (L.street = <<>> \/ (L.city = <<>> /\ L.postal = <<>>))
         THEN "in_person_missing_address"
    ELSE ""

\* main, lines 455-512: the reason of the first guard that skips the record
\* before any geocoding, "" when none does
SkipReasonOf(L, format_ids) ==
    IF ~L.day_known \/ L.start_time = <<>> THEN "missing_day_or_time"
    ELSE IF L.virtual /\ L.virtual_link = <<>> /\ L.phone_number = <<>>
         THEN "virtual_missing_link_or_phone"
    ELSE IF ~L.virtual /\ (L.street = <<>> \/ (L.city = <<>> /\ L.postal = <<>>))
         THEN "in_person_missing_address"
    ELSE IF format_ids = <<>> THEN "no_valid_formats"
    ELSE ""

SkipReason(obj, by_key, allowed) ==
    SkipReasonOf(Locals[obj], ResolveFormats(obj, by_key, allowed))

\* main, lines 542-571: payload from the values of the iteration
PayloadOf(L, venue_type, format_ids, lat, lon) ==
    [serviceBodyId |-> SERVICE_BODY_ID,
     name |-> L.name,
     day |-> L.day,
     startTime |-> L.start_time,
     duration |-> L.duration,
     published |-> TRUE,
     venueType |-> venue_type,
     latitude |-> lat,
     longitude |-> lon,
     formatIds |-> format_ids,
     locationStreet |-> L.street,
     locationCity |-> L.city,
     locationPostalCode |-> L.postal,
     locationCountry |-> L.country,
     locationUrl |-> L.map_url,
     location_street |-> L.street,
     location_municipality |-> L.city,
     location_postal_code |-> L.postal,
     location_country |-> L.country,
     location_url |-> L.map_url,
     locationProvince |-> DEFAULT_PROVINCE,
     location_province |-> DEFAULT_PROVINCE,
     virtualMeetingLink |-> L.virtual_link,
     virtual_meeting_link |-> L.virtual_link,
     phoneMeetingNumber |-> L.phone_number,
     phone_meeting_number |-> L.phone_number,
     comments |-> L.comments,
     externalId |-> L.externalId]

Payload(obj, venue_type, format_ids, lat, lon) ==
    PayloadOf(Locals[obj], venue_type, format_ids, lat, lon)

\* A variant that leaves out the longitude only.
FingerprintWithLatitude(payload) ==
    [k \in (DOMAIN payload) \ {"longitude"} |-> payload[k]]

\* A variant that digests the coordinates too.
FingerprintWithCoordinates(payload) == payload

\* payload_fingerprint(payload).  The SHA-256 digest of the JSON text is
\* taken to be free of collisions: the digest is modelled by the text's
\* content, the payload without its two coordinates.
payload_fingerprint(payload) ==
    [k \in (DOMAIN payload) \ {"latitude", "longitude"} |-> payload[k]]

\* d[k] = d.get(k, 0) + 1 on a dict of counts
Bump(d, k) == IF k \in DOMAIN d THEN [d EXCEPT ![k] = @ + 1] ELSE (k :> 1) @@ d

(***************************************************************************)
(* The importer as a state machine.  A run is main(); it stops at the two  *)
(* per-record network calls (geocoding, publish), whose answers are the    *)
(* environment's choice.  Between runs only the two files remain.          *)
(***************************************************************************)

VARIABLES
    wp_items,            \* what fetch_wp_all returns (the same in every run)
    allow_fallback,      \* ALLOW_FALLBACK_COORDS
    budget,              \* how many runs this behaviour explores
    cache_file,          \* geocode_cache.json: query -> coordinate pair
    state_file,          \* state.json
    run,                 \* runs started so far
    pc,                  \* "idle", "loop", "geocode", "publish"
    geocode_cache,       \* main's geocode_cache
    fingerprints,        \* main's fingerprints
    format_key_to_id,    \* main's format_key_to_id
    allowed_format_ids,  \* main's allowed_format_ids
    idx,                 \* position of the for loop in wp_items, from 1
    created,
    skipped,
    failed,
    skipped_reasons,
    failed_reasons,
    loc,                 \* locals of the loop body that outlive a step
    lookups,             \* this run's coordinate lookups, in order
    results,             \* this run's outcome per record, in order
    prev,                \* the previous run's results and format index
    ended,               \* how the last process that ended did: "" (none yet),
                         \* "finished", "aborted", "killed"
    \* bmlt_login_token followed call by call
    base_url,            \* BMLT_BASE_URL
    credentials,         \* BMLT_USER and BMLT_PASS are both set
    login_pc,            \* "idle", "request", or how the call ended
    url,                 \* bmlt_login_token's url
    redirects,           \* bmlt_login_token's redirects
    resp,                \* what the last http_json call returned or raised
    requests,            \* the URLs posted to so far, in order
    \* fetch_wp_all followed request by request
    source,              \* how many items the source site holds
    fetch_pc,            \* "idle", "request", "returned", "raised"
    page,                \* fetch_wp_all's page
    items,               \* fetch_wp_all's items
    answer,              \* what the last request returned or raised
    \* truncate_comments applied to a text, and to its own result
    comment_in,          \* the text
    trunc_pc,            \* "idle", "once", "twice"
    once,                \* truncate_comments(comment_in)
    twice                \* truncate_comments(once)

main_vars ==
    <<wp_items, allow_fallback, budget, cache_file, state_file, run, pc, geocode_cache,
      fingerprints, format_key_to_id, allowed_format_ids, idx, created, skipped,
      failed, skipped_reasons, failed_reasons, loc, lookups, results, prev, ended>>

login_vars == <<base_url, credentials, login_pc, url, redirects, resp, requests>>

fetch_vars == <<source, fetch_pc, page, items, answer>>

text_vars == <<comment_in, trunc_pc, once, twice>>

vars == <<main_vars, login_vars, fetch_vars, text_vars>>

\* What stays the same from the start to the end of a behaviour of main.
fixed == <<wp_items, allow_fallback, budget, login_vars, fetch_vars, text_vars>>

\* The locals before the first iteration assigns them.
NoLocals ==
    [virtual_link |-> <<>>, phone_number |-> <<>>, venue_type |-> 0,
     format_ids |-> <<>>, missing_format_keys |-> <<>>, removed |-> <<>>,
     q |-> <<>>, lat |-> 0, lon |-> 0, payload |-> <<>>, fp |-> <<>>]

\* load_json_file(STATE_PATH, ...) when there is no file yet
NoStateFile ==
    [last_run |-> 0, created |-> 0, skipped |-> 0, failed |-> 0,
     skipped_reasons |-> <<>>, failed_reasons |-> <<>>, fingerprints |-> <<>>]

\* The memory of a process that is not running.
NoProcess ==
    /\ geocode_cache = <<>>
    /\ fingerprints = <<>>
    /\ format_key_to_id = <<>>
    /\ allowed_format_ids = {}
    /\ idx = 1
    /\ created = 0
    /\ skipped = 0
    /\ failed = 0
    /\ skipped_reasons = <<>>
    /\ failed_reasons = <<>>
    /\ loc = NoLocals
    /\ lookups = <<>>
    /\ results = <<>>

\* The process ends: nothing of its memory is left.
ProcessEnds ==
    /\ geocode_cache' = <<>>
    /\ fingerprints' = <<>>
    /\ format_key_to_id' = <<>>
    /\ allowed_format_ids' = {}
    /\ idx' = 1
    /\ created' = 0
    /\ skipped' = 0
    /\ failed' = 0
    /\ skipped_reasons' = <<>>
    /\ failed_reasons' = <<>>
    /\ loc' = NoLocals
    /\ lookups' = <<>>
    /\ results' = <<>>

\* An empty data directory, no run yet.
DataDirEmpty ==
    /\ cache_file = <<>>
    /\ state_file = NoStateFile
    /\ run = 0
    /\ pc = "idle"
    /\ NoProcess
    /\ prev = [run |-> 0, results |-> <<>>, format_key_to_id |-> <<>>,
               allowed_format_ids |-> {}]
    /\ ended = ""

\* A URL as urllib.parse sees it.
NoUrl == [scheme |-> "", host |-> "", path |-> ""]

\* bmlt_login_token is not being followed.
NoLogin ==
    /\ base_url = NoUrl
    /\ credentials = FALSE
    /\ login_pc = "idle"
    /\ url = NoUrl
    /\ redirects = 0
    /\ resp = [kind |-> "none"]
    /\ requests = <<>>

\* fetch_wp_all is not being followed.
NoFetch ==
    /\ source = 0
    /\ fetch_pc = "idle"
    /\ page = 1
    /\ items = <<>>
    /\ answer = [kind |-> "none"]

\* truncate_comments is not being applied.
NoText ==
    /\ comment_in = <<>>
    /\ trunc_pc = "idle"
    /\ once = <<>>
    /\ twice = <<>>

\* main is not running.
NoMain ==
    /\ wp_items = <<>>
    /\ allow_fallback = FALSE
    /\ budget = 0
    /\ DataDirEmpty

FirstStart ==
    /\ DataDirEmpty
    /\ NoLogin
    /\ NoFetch
    /\ NoText

\* One run over any feed.
Init ==
    /\ wp_items \in Feeds
    /\ allow_fallback \in BOOLEAN
    /\ budget = 1
    /\ FirstStart

\* Repeated runs over the same feed.
InitRerun ==
    /\ wp_items \in RerunFeeds
    /\ allow_fallback \in BOOLEAN
    /\ budget = MaxRuns
    /\ FirstStart

\* main, lines 424-444: fetch, log in, read the formats, load the two files
StartRun ==
    /\ pc = "idle"
    /\ run < budget
    /\ run' = run + 1
    /\ \E data \in FormatResponses :
           /\ format_key_to_id' = bmlt_get_formats(data)[1]
           /\ allowed_format_ids' = bmlt_get_formats(data)[2]
    /\ geocode_cache' = cache_file
    /\ fingerprints' = state_file.fingerprints
    /\ created' = 0
    /\ skipped' = 0
    /\ failed' = 0
    /\ skipped_reasons' = <<>>
    /\ failed_reasons' = <<>>
    /\ idx' = 1
    /\ loc' = NoLocals
    /\ lookups' = <<>>
    /\ results' = <<>>
    /\ pc' = "loop"
    /\ UNCHANGED <<fixed, cache_file, state_file, prev, ended>>

\* A variant that counts the reason but not the skip.
SkipRecordUncounted(reason) ==
    /\ skipped_reasons' = Bump(skipped_reasons, reason)
    /\ results' = Append(results, [outcome |-> "skipped", reason |-> reason])
    /\ idx' = idx + 1
    /\ pc' = "loop"
    /\ UNCHANGED <<skipped, created, failed, failed_reasons, fingerprints>>

\* skipped += 1; skipped_reasons[reason] += 1; continue
SkipRecord(reason) ==
    /\ skipped' = skipped + 1
    /\ skipped_reasons' = Bump(skipped_reasons, reason)
    /\ results' = Append(results, [outcome |-> "skipped", reason |-> reason])
    /\ idx' = idx + 1
    /\ pc' = "loop"
    /\ UNCHANGED <<created, failed, failed_reasons, fingerprints>>

\* A variant that stores the fingerprint before the publish call.
CompareStoringFirst(l, key, payload, fp) ==
    /\ loc' = [l EXCEPT !.payload = <<payload>>, !.fp = <<fp>>]
    /\ IF key \in DOMAIN fingerprints /\ fingerprints[key] = fp
       THEN SkipRecord("unchanged")
       ELSE /\ pc' = "publish"
            /\ fingerprints' = (key :> fp) @@ fingerprints
            /\ UNCHANGED <<idx, created, skipped, failed, skipped_reasons,
                           failed_reasons, results>>

\* main, lines 573-577: compare the fingerprint with the stored one
Compare(l, key, payload, fp) ==
    /\ loc' = [l EXCEPT !.payload = <<payload>>, !.fp = <<fp>>]
    /\ IF key \in DOMAIN fingerprints /\ fingerprints[key] = fp
       THEN SkipRecord("unchanged")
       ELSE /\ pc' = "publish"
            /\ UNCHANGED <<idx, created, skipped, failed, skipped_reasons,
                           failed_reasons, fingerprints, results>>

\* main, lines 573-574: fp = payload_fingerprint(payload)
Fingerprint(l, key, payload) == Compare(l, key, payload, payload_fingerprint(payload))

\* main, lines 542-577: assemble the payload, fingerprint it, compare
Assemble(l) ==
    Fingerprint(l, Locals[wp_items[idx]].wp_key,
                Payload(wp_items[idx], l.venue_type, l.format_ids, l.lat, l.lon))

\* main, lines 460-470: virtual_link and phone_number
ContactLocals(l, L) ==
    [l EXCEPT !.virtual_link = L.virtual_link, !.phone_number = L.phone_number]

\* main, lines 491-510: venue_type, format_ids, missing_format_keys, removed
FormatLocals(l, obj, by_key, allowed) ==
    [l EXCEPT !.venue_type = VenueType(obj),
              !.format_ids = ResolveFormats(obj, by_key, allowed),
              !.missing_format_keys = build_format_ids(obj, by_key)[2],
              !.removed = KeepRemoved(build_format_ids(obj, by_key)[1], allowed)]

\* main, lines 514-518: lat, lon = DEFAULT_LAT, DEFAULT_LON and, for a venue
\* with a place, q
GeoLocals(l, L) ==
    [l EXCEPT !.lat = DEFAULT_LAT, !.lon = DEFAULT_LON,
              !.q = IF l.venue_type \in {VENUE_IN_PERSON, VENUE_HYBRID} THEN L.q ELSE @]

\* main, lines 516-517: a venue with a place and a non-empty query
WantsGeocode(l, L) ==
    l.venue_type \in {VENUE_IN_PERSON, VENUE_HYBRID} /\ L.q # <<>>

\* main, lines 455-521: the guards in their order, then the cache
Iteration(L, reason, l1, l2, l4) ==
    IF reason # ""
    THEN /\ SkipRecord(reason)
         /\ loc' = IF reason = "missing_day_or_time" THEN loc
                   ELSE IF reason = "no_valid_formats" THEN l2
                   ELSE l1
         /\ UNCHANGED <<geocode_cache, lookups>>
    ELSE IF WantsGeocode(l4, L) /\ L.q \notin DOMAIN geocode_cache
    THEN /\ pc' = "geocode"
         /\ loc' = l4
         /\ UNCHANGED <<geocode_cache, lookups, idx, created, skipped, failed,
                        skipped_reasons, failed_reasons, fingerprints, results>>
    ELSE IF WantsGeocode(l4, L)
    THEN /\ lookups' = Append(lookups, [q |-> L.q, live |-> FALSE,
                                        outcome |-> "hit", slept |-> FALSE])
         /\ Assemble([l4 EXCEPT !.lat = geocode_cache[L.q][1],
                                !.lon = geocode_cache[L.q][2]])
         /\ UNCHANGED geocode_cache
    ELSE /\ Assemble(l4)
         /\ UNCHANGED <<geocode_cache, lookups>>

\* The locals of the iteration after each group of assignments.
AfterContact == ContactLocals(loc, Locals[wp_items[idx]])

AfterFormats == FormatLocals(AfterContact, wp_items[idx], format_key_to_id, allowed_format_ids)

AfterDefaults == GeoLocals(AfterFormats, Locals[wp_items[idx]])

\* main, lines 446-521: one iteration up to the geocoding call, or past it
\* when no live call is needed
ProcessRecord ==
    /\ pc = "loop"
    /\ idx <= Len(wp_items)
    /\ Iteration(Locals[wp_items[idx]],
                 SkipReason(wp_items[idx], format_key_to_id, allowed_format_ids),
                 AfterContact, AfterFormats, AfterDefaults)
    /\ UNCHANGED <<fixed, cache_file, state_file, run, format_key_to_id,
                   allowed_format_ids, prev, ended>>

\* A variant that does not remember the result.
GeocodeFoundUncached(res) ==
    /\ UNCHANGED geocode_cache
    /\ Assemble([loc EXCEPT !.lat = res[1], !.lon = res[2]])

\* main, lines 526-528: a result: lat, lon = res; geocode_cache[q] = (lat, lon)
GeocodeFound(res) ==
    /\ geocode_cache' = (loc.q :> res) @@ geocode_cache
    /\ Assemble([loc EXCEPT !.lat = res[1], !.lon = res[2]])

\* main, lines 529-540: no result or an exception: the default coordinates
\* when ALLOW_FALLBACK_COORDS, the skip otherwise
GeocodeMissed(outcome) ==
    /\ UNCHANGED geocode_cache
    /\ IF allow_fallback
       THEN Assemble(loc)
       ELSE /\ SkipRecord(IF outcome = "none" THEN "geocode_failed" ELSE "geocode_error")
            /\ UNCHANGED loc

\* main, lines 523-540: geocode_address(q) returns a pair, returns None or
\* raises; time.sleep(1.1) follows the call inside the try block
GeocodeReturn ==
    /\ pc = "geocode"
    /\ \E outcome \in {"ok", "none", "error"} :
         \E res \in GeocodeAnswers :
           /\ lookups' = Append(lookups, [q |-> loc.q, live |-> TRUE,
                                          outcome |-> outcome,
                                          slept |-> outcome # "error"])
           /\ IF outcome = "ok" THEN GeocodeFound(res) ELSE GeocodeMissed(outcome)
    /\ UNCHANGED <<fixed, cache_file, state_file, run, format_key_to_id,
                   allowed_format_ids, prev, ended>>

\* main, lines 580-582: bmlt_create_meeting returned
Published ==
    /\ created' = created + 1
    /\ fingerprints' = (Locals[wp_items[idx]].wp_key :> loc.fp[1]) @@ fingerprints
    /\ results' = Append(results, [outcome |-> "created", reason |-> ""])
    /\ UNCHANGED <<failed, failed_reasons>>

\* A variant that stores the fingerprint of a rejected payload.
PublishFailedStoring(reason) ==
    /\ failed' = failed + 1
    /\ failed_reasons' = Bump(failed_reasons, reason)
    /\ results' = Append(results, [outcome |-> "failed", reason |-> reason])
    /\ fingerprints' = (Locals[wp_items[idx]].wp_key :> loc.fp[1]) @@ fingerprints
    /\ UNCHANGED created

\* main, lines 592-600: bmlt_create_meeting raised; reason is the status code
\* of an HTTPError, "exception" otherwise
PublishFailed(reason) ==
    /\ failed' = failed + 1
    /\ failed_reasons' = Bump(failed_reasons, reason)
    /\ results' = Append(results, [outcome |-> "failed", reason |-> reason])
    /\ UNCHANGED <<created, fingerprints>>

\* main, lines 579-600: bmlt_create_meeting returns, or raises an HTTPError
\* with a status code, or raises another exception
PublishReturn ==
    /\ pc = "publish"
    /\ \E outcome \in {"ok", "exception"} \cup {ToString(c) : c \in HttpErrorCodes} :
           IF outcome = "ok" THEN Published ELSE PublishFailed(outcome)
    /\ idx' = idx + 1
    /\ pc' = "loop"
    /\ UNCHANGED <<fixed, cache_file, state_file, run, geocode_cache, format_key_to_id,
                   allowed_format_ids, skipped, skipped_reasons, loc, lookups, prev,
                   ended>>

\* A variant that stops after the first of the two files.
FinishRunCacheOnly ==
    /\ pc = "loop"
    /\ idx > Len(wp_items)
    /\ cache_file' = geocode_cache
    /\ pc' = "idle"
    /\ ended' = "finished"
    /\ ProcessEnds
    /\ UNCHANGED <<fixed, run, state_file, prev>>

\* main, lines 602-612: after the last record, write the two files; the
\* process then ends and its memory is gone
FinishRun ==
    /\ pc = "loop"
    /\ idx > Len(wp_items)
    /\ cache_file' = geocode_cache
    /\ state_file' = [last_run |-> run, created |-> created, skipped |-> skipped,
                      failed |-> failed, skipped_reasons |-> skipped_reasons,
                      failed_reasons |-> failed_reasons, fingerprints |-> fingerprints]
    /\ prev' = [run |-> run, results |-> results, format_key_to_id |-> format_key_to_id,
                allowed_format_ids |-> allowed_format_ids]
    /\ pc' = "idle"
    /\ ended' = "finished"
    /\ ProcessEnds
    /\ UNCHANGED <<fixed, run>>

\* A variant that records the failed start in the state file.
StartFailsSaving ==
    /\ pc = "idle"
    /\ run < budget
    /\ run' = run + 1
    /\ ended' = "aborted"
    /\ state_file' = [state_file EXCEPT !.last_run = run + 1]
    /\ UNCHANGED <<fixed, cache_file, pc, geocode_cache, fingerprints,
                   format_key_to_id, allowed_format_ids, idx, created, skipped, failed,
                   skipped_reasons, failed_reasons, loc, lookups, results, prev>>

\* main, lines 427-433: fetch_wp_all, bmlt_login_token (sys.exit without
\* credentials) or bmlt_get_formats raises; nothing catches it, and the files
\* are neither read nor written
StartFails ==
    /\ pc = "idle"
    /\ run < budget
    /\ run' = run + 1
    /\ ended' = "aborted"
    /\ UNCHANGED <<fixed, cache_file, state_file, pc, geocode_cache, fingerprints,
                   format_key_to_id, allowed_format_ids, idx, created, skipped, failed,
                   skipped_reasons, failed_reasons, loc, lookups, results, prev>>

\* A variant that saves what it has when it is stopped.
CrashFlushing ==
    /\ pc \in {"loop", "geocode", "publish"}
    /\ pc' = "idle"
    /\ ended' = "killed"
    /\ cache_file' = geocode_cache
    /\ state_file' = [state_file EXCEPT !.fingerprints = fingerprints]
    /\ ProcessEnds
    /\ UNCHANGED <<fixed, run, prev>>

\* The process is killed between lines 446 and 601: the files are written
\* only at lines 602-612, so they stay as they are
Crash ==
    /\ pc \in {"loop", "geocode", "publish"}
    /\ pc' = "idle"
    /\ ended' = "killed"
    /\ ProcessEnds
    /\ UNCHANGED <<fixed, cache_file, state_file, run, prev>>

\* The steps of main when every call returns or raises.
Runs ==
    \/ StartRun
    \/ StartFails
    \/ ProcessRecord
    \/ GeocodeReturn
    \/ PublishReturn
    \/ FinishRun

Next ==
    \/ StartRun
    \/ StartFails
    \/ ProcessRecord
    \/ GeocodeReturn
    \/ PublishReturn
    \/ FinishRun
    \/ Crash

Spec == Init /\ [][Next]_vars

\* One run, uninterrupted, over a feed of the repeated-run records.
InitOnce ==
    /\ wp_items \in RerunFeeds
    /\ allow_fallback \in BOOLEAN
    /\ budget = 1
    /\ FirstStart

\* main is sequential and every call it makes returns or raises: a step
\* that can be taken is taken.
SpecLive ==
    /\ InitOnce
    /\ [][Runs]_vars
    /\ WF_vars(ProcessRecord)
    /\ WF_vars(GeocodeReturn)
    /\ WF_vars(PublishReturn)
    /\ WF_vars(FinishRun)

SpecRerun == InitRerun /\ [][Next]_vars

(***************************************************************************)
(* bmlt_login_token, lines 327-357, one step per http_json call.  A URL is *)
(* the record of its scheme, host and path; a header or a field of a reply *)
(* that may be missing is a sequence of at most one value.                 *)
(***************************************************************************)

\* the redirect limit of line 343
MaxRedirects == 3

\* the status codes of line 343
RedirectCodes == {301, 302, 303, 307, 308}

\* status codes the registry or a proxy in front of it answers with
StatusCodes == RedirectCodes \cup {401, 500}

\* BMLT_BASE_URL with and without a scheme
BaseUrls ==
    { [scheme |-> "http", host |-> "127.0.0.1", path |-> ""],
      [scheme |-> "", host |-> "127.0.0.1", path |-> ""] }

\* Location headers: none, an empty one, an absolute URL, absolute paths
Locations ==
    { <<>>,
      <<NoUrl>>,
      <<[scheme |-> "https", host |-> "bmlt.example", path |-> "/api/v1/auth/token"]>>,
      <<[scheme |-> "", host |-> "", path |-> "/main_server/api/v1/auth/token"]>>,
      <<[scheme |-> "", host |-> "", path |-> "/bmlt/api/v1/auth/token"]>> }

\* JSON bodies of a 200 reply: the token under each of the three names,
\* an empty token, no token
Replies ==
    { [kind |-> "json", token |-> <<"t">>, access_token |-> <<>>, data_token |-> <<>>],
      [kind |-> "json", token |-> <<>>, access_token |-> <<"t">>, data_token |-> <<>>],
      [kind |-> "json", token |-> <<>>, access_token |-> <<>>, data_token |-> <<"t">>],
      [kind |-> "json", token |-> <<"">>, access_token |-> <<>>, data_token |-> <<>>],
      [kind |-> "json", token |-> <<>>, access_token |-> <<>>, data_token |-> <<>>] }

\* What one http_json call can do: return a JSON body, return None for an
\* empty body, raise HTTPError, raise something else (URLError, a timeout).
Answers ==
    Replies
    \cup { [kind |-> "empty"], [kind |-> "URLError"] }
    \cup { [kind |-> "HTTPError", code |-> c, Location |-> l] :
             c \in StatusCodes, l \in Locations }

\* require_scheme, lines 107-110
require_scheme(u) == u.scheme \in {"http", "https"}

\* urllib.parse.urljoin for a reference that is an absolute URL, a
\* network-path reference, empty, or an absolute path
urljoin(base, ref) ==
    IF ref.scheme # "" THEN ref
    ELSE IF ref.host # "" THEN [ref EXCEPT !.scheme = base.scheme]
    ELSE IF ref.path = "" THEN base
    ELSE [base EXCEPT !.path = ref.path]

\* Python's truth of an optional text
Given(o) == o # <<>> /\ o[1] # ""

\* lines 353-354: resp.get("token") or resp.get("access_token") or
\* resp.get("data", {}).get("token")
TokenOf(r) ==
    IF r.kind # "json" THEN <<>>
    ELSE IF Given(r.token) THEN r.token
    ELSE IF Given(r.access_token) THEN r.access_token
    ELSE r.data_token

\* A variant that follows a fourth redirect.
FollowsFour(r) ==
    /\ r.code \in RedirectCodes
    /\ redirects <= MaxRedirects
    /\ r.Location # <<>>
    /\ r.Location[1] # NoUrl

\* lines 343-345: the redirect is followed
Follows(r) ==
    /\ r.code \in RedirectCodes
    /\ redirects < MaxRedirects
    /\ r.Location # <<>>
    /\ r.Location[1] # NoUrl

\* lines 328-341, up to the first http_json call
LoginStart ==
    /\ login_pc = "idle"
    /\ IF ~require_scheme(base_url)
       THEN /\ login_pc' = "ValueError"
            /\ UNCHANGED <<url, redirects, requests>>
       ELSE IF ~credentials
       THEN /\ login_pc' = "exit"
            /\ UNCHANGED <<url, redirects, requests>>
       ELSE /\ login_pc' = "request"
            /\ url' = [base_url EXCEPT !.path = "/api/v1/auth/token"]
            /\ redirects' = 0
            /\ requests' = <<url'>>
    /\ UNCHANGED <<main_vars, fetch_vars, text_vars, base_url, credentials, resp>>

\* lines 339-357, from the return of one http_json call to the next call or
\* to the end of bmlt_login_token
LoginReturn(r) ==
    /\ login_pc = "request"
    /\ resp' = r
    /\ IF r.kind = "HTTPError"
       THEN IF Follows(r)
            THEN /\ url' = urljoin(url, r.Location[1])
                 /\ redirects' = redirects + 1
                 /\ requests' = Append(requests, url')
                 /\ login_pc' = "request"
            ELSE /\ login_pc' = "HTTPError"
                 /\ UNCHANGED <<url, redirects, requests>>
       ELSE IF r.kind = "URLError"
       THEN /\ login_pc' = "URLError"
            /\ UNCHANGED <<url, redirects, requests>>
       ELSE /\ login_pc' = IF Given(TokenOf(r)) THEN "token" ELSE "no_token"
            /\ UNCHANGED <<url, redirects, requests>>
    /\ UNCHANGED <<main_vars, fetch_vars, text_vars, base_url, credentials>>

LoginReturns == \E r \in Answers : LoginReturn(r)

\* main is not running; bmlt_login_token is about to be called.
InitLogin ==
    /\ NoMain
    /\ NoFetch
    /\ NoText
    /\ base_url \in BaseUrls
    /\ credentials \in BOOLEAN
    /\ login_pc = "idle"
    /\ url = NoUrl
    /\ redirects = 0
    /\ resp = [kind |-> "none"]
    /\ requests = <<>>

NextLogin ==
    \/ LoginStart
    \/ LoginReturns

\* http_json has a timeout (line 113): every call returns or raises.
SpecLogin ==
    /\ InitLogin
    /\ [][NextLogin]_vars
    /\ WF_vars(LoginStart)
    /\ WF_vars(LoginReturns)

(***************************************************************************)
(* fetch_wp_all, lines 151-172, one step per request.  The source holds    *)
(* the items 1..source and serves them WP_PER_PAGE to a page.              *)
(***************************************************************************)

WP_PER_PAGE == 100

\* The largest source followed.
MaxSource == 201

\* HTTP errors the source site or a proxy in front of it answers with
FetchErrors == {400, 404, 500, 503}

\* The number of pages the source has.
LastPage(n) == (n + WP_PER_PAGE - 1) \div WP_PER_PAGE

\* The items of page p of a source of n items; none beyond the last page.
PageOf(n, p) ==
    LET first == (p - 1) * WP_PER_PAGE
        last == IF p * WP_PER_PAGE < n THEN p * WP_PER_PAGE ELSE n
    IN  IF last <= first THEN <<>> ELSE [i \in 1..(last - first) |-> first + i]

\* What one request can do: return the page, raise HTTPError, raise
\* something else (URLError, a timeout).
FetchAnswers(n, p) ==
    { [kind |-> "page", data |-> PageOf(n, p)], [kind |-> "URLError"] }
    \cup { [kind |-> "HTTPError", code |-> c] : c \in FetchErrors }

\* line 171
NextPage(p) == p + 1

\* lines 152-162, up to the first request
FetchStart ==
    /\ fetch_pc = "idle"
    /\ fetch_pc' = "request"
    /\ items' = <<>>
    /\ page' = 1
    /\ UNCHANGED <<main_vars, login_vars, text_vars, source, answer>>

\* lines 161-172, from the return of one request to the next request or to
\* the end of fetch_wp_all
FetchReturn(a) ==
    /\ fetch_pc = "request"
    /\ answer' = a
    /\ IF a.kind = "HTTPError"
       THEN /\ fetch_pc' = IF a.code \in {400, 404} THEN "returned" ELSE "raised"
            /\ UNCHANGED <<page, items>>
       ELSE IF a.kind = "URLError"
       THEN /\ fetch_pc' = "raised"
            /\ UNCHANGED <<page, items>>
       ELSE IF a.data = <<>>
       THEN /\ fetch_pc' = "returned"
            /\ UNCHANGED <<page, items>>
       ELSE /\ items' = items \o a.data
            /\ page' = NextPage(page)
            /\ fetch_pc' = "request"
    /\ UNCHANGED <<main_vars, login_vars, text_vars, source>>

FetchReturns == \E a \in FetchAnswers(source, page) : FetchReturn(a)

\* main is not running; fetch_wp_all is about to be called.
InitFetch ==
    /\ NoMain
    /\ NoLogin
    /\ NoText
    /\ source \in 0..MaxSource
    /\ fetch_pc = "idle"
    /\ page = 1
    /\ items = <<>>
    /\ answer = [kind |-> "none"]

NextFetch ==
    \/ FetchStart
    \/ FetchReturns

SpecFetch == InitFetch /\ [][NextFetch]_vars

(***************************************************************************)
(* truncate_comments, lines 227-234, applied to a text and then to its own *)
(* result.                                                                 *)
(***************************************************************************)

\* The longest text followed.
MaxText == 514

\* Texts of n characters: the digits of the positions, ellipses only, and
\* letters with ellipses where a cut would fall.
Fill(n, k) ==
    [i \in 1..n |->
        IF k = 1 THEN <<"0", "1", "2", "3", "4", "5", "6", "7", "8", "9">>[(i % 10) + 1]
        ELSE IF k = 2 THEN Ellipsis
        ELSE IF i \in {COMMENTS_MAX - 1, COMMENTS_MAX} THEN Ellipsis
        ELSE "a"]

TextInputs == { Fill(n, k) : n \in 0..MaxText, k \in 1..3 }

\* comments = truncate_comments(comments_raw), line 467
TruncateOnce ==
    /\ trunc_pc = "idle"
    /\ once' = truncate_comments(comment_in)
    /\ trunc_pc' = "once"
    /\ UNCHANGED <<main_vars, login_vars, fetch_vars, comment_in, twice>>

\* truncate_comments applied to what it returned
TruncateAgain ==
    /\ trunc_pc = "once"
    /\ twice' = truncate_comments(once)
    /\ trunc_pc' = "twice"
    /\ UNCHANGED <<main_vars, login_vars, fetch_vars, comment_in, once>>

\* main is not running; truncate_comments is about to be called.
InitText ==
    /\ NoMain
    /\ NoLogin
    /\ NoFetch
    /\ comment_in \in TextInputs
    /\ trunc_pc = "idle"
    /\ once = <<>>
    /\ twice = <<>>

NextText ==
    \/ TruncateOnce
    \/ TruncateAgain

SpecText == InitText /\ [][NextText]_vars

(***************************************************************************)
(* Properties.  results lists the outcome of every record the run has      *)
(* finished, lookups every coordinate lookup of the run, prev what the     *)
(* previous run left.                                                      *)
(***************************************************************************)

Last(s) == s[Len(s)]

\* This step finishes a record.
Finishes == Len(results') = Len(results) + 1

\* This step finishes a record by skipping it for the reason.
Skips(reason) == Finishes /\ Last(results') = [outcome |-> "skipped", reason |-> reason]

\* This step is taken while the current record is being processed.
RecordStep == pc # "idle" /\ pc' # "idle"

\* This step assembles a payload for the current record.
Assembles == pc \in {"loop", "geocode"} /\ (pc' = "publish" \/ Skips("unchanged"))

\* A run after a finished one is under way.
LaterRun == run >= 2 /\ pc # "idle" /\ prev.run = run - 1

\* The registry's format list is the one the previous run read.
SameRegistry ==
    /\ format_key_to_id = prev.format_key_to_id
    /\ allowed_format_ids = prev.allowed_format_ids

\* No other record of the feed carries the identifier of record i.
UniqueId(i) == \A j \in 1..Len(wp_items) : j # i => wp_items[j].id # wp_items[i].id

\* street and (city or postal)
FullAddress(L) == L.street # <<>> /\ (L.city # <<>> \/ L.postal # <<>>)

\* The guards before the geocoding, each stated on its own.
FailsDayTime(L) == ~L.day_known \/ L.start_time = <<>>

FailsContact(L) == L.virtual /\ L.virtual_link = <<>> /\ L.phone_number = <<>>

FailsAddress(L) == ~L.virtual /\ ~FullAddress(L)

\* The first of the guards before the geocoding that fails, "" when none.
FirstFailing(L, format_ids) ==
    IF FailsDayTime(L) THEN "missing_day_or_time"
    ELSE IF FailsContact(L) THEN "virtual_missing_link_or_phone"
    ELSE IF FailsAddress(L) THEN "in_person_missing_address"
    ELSE IF format_ids = <<>> THEN "no_valid_formats"
    ELSE ""

\* The format ids of a record after resolution and post-filter, before any fallback.
Filtered(obj) ==
    KeepAllowed(build_format_ids(obj, format_key_to_id)[1], allowed_format_ids)

\* FIN resolves to a currently valid id.
FinValid == KeyFIN \in DOMAIN format_key_to_id /\ format_key_to_id[KeyFIN] \in allowed_format_ids

\* A skip ends the record: the loop goes on, nothing is published or stored.
SkipIsTerminal ==
    /\ pc' = "loop"
    /\ idx' = idx + 1
    /\ fingerprints' = fingerprints
    /\ created' = created
    /\ failed' = failed

C1_Step ==
    /\ (RecordStep /\ fingerprints' # fingerprints) =>
           /\ pc = "publish"
           /\ Finishes
           /\ Last(results').outcome = "created"
           /\ DOMAIN fingerprints' = DOMAIN fingerprints \cup {Locals[wp_items[idx]].wp_key}
           /\ \A k \in DOMAIN fingerprints :
                  k # Locals[wp_items[idx]].wp_key => fingerprints'[k] = fingerprints[k]
    /\ (RecordStep /\ Finishes /\ Last(results').outcome \in {"skipped", "failed"}) =>
           fingerprints' = fingerprints

\* C1: while a run processes its records, the stored fingerprints change only
\* in the step where the publish call of the current record returned success,
\* and then only the entry of that record's identifier; a step that skips a
\* record or ends in a failed publish leaves the store as it was.
C1_FingerprintOnlyOnSuccess == [][C1_Step]_vars

\* A failed publish has left the store empty, the next record's success has
\* added its entry.
C1_Witness ==
    /\ pc = "loop"
    /\ Len(results) = 2
    /\ results[1].outcome = "failed"
    /\ results[2].outcome = "created"
    /\ DOMAIN fingerprints = {Locals[wp_items[2]].wp_key}
    /\ wp_items[1].id # wp_items[2].id

C2_Step ==
    (pc = "publish" /\ Finishes /\ Last(results').outcome # "created") =>
        /\ Last(results').outcome = "failed"
        /\ failed' = failed + 1
        /\ created' = created
        /\ skipped' = skipped
        /\ idx' = idx + 1
        /\ pc' = "loop"

C2_RetryAlways ==
    LaterRun =>
        \A i \in 1..Len(results) :
            prev.results[i].outcome = "failed" => results[i].outcome \in {"created", "failed"}

C2_Retry ==
    (LaterRun /\ SameRegistry) =>
        \A i \in 1..Len(results) :
            (prev.results[i].outcome = "failed" /\ UniqueId(i))
                => results[i].outcome \in {"created", "failed"}

\* C2 as stated: a failed publish is counted as failed, the loop goes on to
\* the next record, and in the next run over the same feed a publish is
\* attempted again for that record.
C2_Original == [][C2_Step /\ C2_RetryAlways']_vars

\* C2, amended: a failed publish is counted as failed and the loop goes on to
\* the next record; in the next run over the same feed a publish is attempted
\* again for that record when the registry's format list is the same as in
\* the failing run and no other record of the feed carries its identifier.
C2_FailedPublishRetried == [][C2_Step /\ C2_Retry']_vars

\* The publish of the first record failed in the previous run and was
\* attempted again in this one, after which the second record was processed.
C2_Witness ==
    /\ LaterRun
    /\ SameRegistry
    /\ Len(results) = 2
    /\ prev.results[1].outcome = "failed"
    /\ UniqueId(1)
    /\ results[1].outcome = "created"

\* C3 as stated: in a run after a finished run over the same feed, with the
\* registry's format list unchanged, every record is skipped as unchanged.
C3_Original ==
    (LaterRun /\ SameRegistry) =>
        \A i \in 1..Len(results) : results[i] = [outcome |-> "skipped", reason |-> "unchanged"]

\* C3, amended: in a run after a finished run over the same feed, with the
\* registry's format list unchanged, every record that the previous run
\* published or skipped as unchanged, and whose identifier no other record of
\* the feed carries, is skipped as unchanged.
C3_SecondRunUnchanged ==
    (LaterRun /\ SameRegistry) =>
        \A i \in 1..Len(results) :
            (/\ UniqueId(i)
             /\ \/ prev.results[i].outcome = "created"
                \/ prev.results[i] = [outcome |-> "skipped", reason |-> "unchanged"])
                => results[i] = [outcome |-> "skipped", reason |-> "unchanged"]

\* Two records published by the first run are both skipped as unchanged by
\* the second.
C3_Witness ==
    /\ LaterRun
    /\ SameRegistry
    /\ Len(results) = 2
    /\ UniqueId(1)
    /\ \A i \in 1..2 : /\ prev.results[i].outcome = "created"
                       /\ results[i] = [outcome |-> "skipped", reason |-> "unchanged"]
    /\ created = 0

\* C4 as stated: within a run, a second or later lookup of a query makes no
\* live geocoding call and no delay, whatever the first lookup's outcome.
C4_Original ==
    \A i, j \in 1..Len(lookups) :
        (i < j /\ lookups[i].q = lookups[j].q) => (~lookups[j].live /\ ~lookups[j].slept)

\* C4, amended: within a run, a lookup of a query that follows a lookup of
\* the same query which yielded coordinates (from the cache or from a live
\* call) makes no live geocoding call and no delay.
C4_CachedLookupNotRepeated ==
    \A i, j \in 1..Len(lookups) :
        (i < j /\ lookups[i].q = lookups[j].q /\ lookups[i].outcome \in {"ok", "hit"})
            => (~lookups[j].live /\ ~lookups[j].slept)

\* Two different records with the same cleaned query: a live call that
\* returned coordinates, then a cache hit.
C4_Witness ==
    /\ Len(lookups) = 2
    /\ lookups[1].q = lookups[2].q
    /\ lookups[1].live
    /\ lookups[1].outcome = "ok"
    /\ lookups[2].outcome = "hit"
    /\ wp_items[1] # wp_items[2]

\* C5 as stated: every live geocoding call is followed by the delay, whether
\* it returned coordinates, returned no result or raised.
C5_Original == \A i \in 1..Len(lookups) : lookups[i].live => lookups[i].slept

\* C6 as stated: every assembled payload has exactly one of virtual link and
\* phone number non-empty, or its venue type is not virtual.
C6_Original ==
    loc.payload # <<>> =>
        \/ loc.payload[1].venueType # VENUE_VIRTUAL
        \/ (loc.payload[1].virtualMeetingLink # <<>>) # (loc.payload[1].phoneMeetingNumber # <<>>)

\* C6, amended: every assembled payload has at least one of virtual link and
\* phone number non-empty, or its venue type is not virtual.
C6_VirtualHasContact ==
    loc.payload # <<>> =>
        \/ loc.payload[1].venueType # VENUE_VIRTUAL
        \/ loc.payload[1].virtualMeetingLink # <<>>
        \/ loc.payload[1].phoneMeetingNumber # <<>>

\* A virtual payload with a link and a phone number is about to be published.
C6_Witness ==
    /\ pc = "publish"
    /\ loc.payload[1].venueType = VENUE_VIRTUAL
    /\ loc.payload[1].virtualMeetingLink # <<>>
    /\ loc.payload[1].phoneMeetingNumber # <<>>

C7_Step ==
    Assembles =>
        /\ loc'.payload[1].venueType \in {VENUE_IN_PERSON, VENUE_HYBRID} =>
               /\ loc'.payload[1].locationStreet # <<>>
               /\ \/ loc'.payload[1].locationCity # <<>>
                  \/ loc'.payload[1].locationPostalCode # <<>>
        /\ (Locals[wp_items[idx]].hybrid_marker /\ ~FullAddress(Locals[wp_items[idx]])) =>
               loc'.payload[1].venueType = VENUE_VIRTUAL

\* C7: every assembled payload whose venue type is in-person or hybrid has a
\* non-empty street and a non-empty city or postal code, and a payload
\* assembled for a record with the hybrid marker but without such an address
\* has venue type virtual.
C7_PlaceHasAddress == [][C7_Step]_vars

\* A record with the hybrid marker and no street is about to be published
\* as virtual.
C7_Witness ==
    /\ pc = "publish"
    /\ Locals[wp_items[idx]].hybrid_marker
    /\ Locals[wp_items[idx]].street = <<>>
    /\ loc.payload[1].venueType = VENUE_VIRTUAL

\* C8: every payload handed to the publish call has a non-empty list of
\* format ids, each of them in the set of valid ids read from the registry's
\* format list in this run.
C8_FormatIdsValid ==
    pc = "publish" =>
        /\ loc.payload[1].formatIds # <<>>
        /\ \A i \in 1..Len(loc.payload[1].formatIds) :
               loc.payload[1].formatIds[i] \in allowed_format_ids

\* A payload is about to be published although one of the record's format
\* keys is unknown to the registry.
C8_Witness ==
    /\ pc = "publish"
    /\ loc.missing_format_keys # <<>>
    /\ Len(loc.payload[1].formatIds) >= 1

C9_Carried ==
    (pc \in {"geocode", "publish"} /\ Filtered(wp_items[idx]) = <<>>) =>
        /\ FinValid
        /\ loc.format_ids = <<format_key_to_id[KeyFIN]>>
        /\ pc = "publish" => loc.payload[1].formatIds = <<format_key_to_id[KeyFIN]>>

C9_Step ==
    (/\ pc = "loop"
     /\ RecordStep
     /\ idx <= Len(wp_items)
     /\ FirstFailing(Locals[wp_items[idx]], <<0>>) = ""
     /\ Filtered(wp_items[idx]) = <<>>) =>
        IF FinValid
        THEN /\ ~Finishes \/ Skips("unchanged")
             /\ Assembles => loc'.payload[1].formatIds = <<format_key_to_id[KeyFIN]>>
        ELSE /\ Skips("no_valid_formats")
             /\ SkipIsTerminal
             /\ lookups' = lookups
             /\ geocode_cache' = geocode_cache

\* C9: for a record that reaches format resolution with an empty resolved
\* and filtered id list: when FIN resolves to a valid id, the record is not
\* skipped for its formats and its payload carries exactly that id; otherwise
\* the record is skipped as no_valid_formats in that step, with no lookup, no
\* cache update and no publish.
C9_FinFallback == [][C9_Step /\ C9_Carried']_vars

\* A record whose own tokens resolve to nothing is about to be published
\* with the FIN id alone.
C9_Witness ==
    /\ pc = "publish"
    /\ Filtered(wp_items[idx]) = <<>>
    /\ loc.payload[1].formatIds = <<format_key_to_id[KeyFIN]>>

C10_Early ==
    (pc = "loop" /\ RecordStep /\ idx <= Len(wp_items)) =>
        IF FirstFailing(Locals[wp_items[idx]],
                        ResolveFormats(wp_items[idx], format_key_to_id, allowed_format_ids)) # ""
        THEN /\ Skips(FirstFailing(Locals[wp_items[idx]],
                                   ResolveFormats(wp_items[idx], format_key_to_id,
                                                  allowed_format_ids)))
             /\ SkipIsTerminal
             /\ lookups' = lookups
             /\ geocode_cache' = geocode_cache
             /\ loc'.payload = loc.payload
             /\ FirstFailing(Locals[wp_items[idx]], <<0>>) # "" => loc'.format_ids = loc.format_ids
        ELSE \/ ~Finishes /\ pc' \in {"geocode", "publish"}
             \/ Skips("unchanged")

C10_Geocode ==
    (pc = "geocode" /\ Finishes /\ Last(results').outcome = "skipped") =>
        \/ Skips("unchanged")
        \/ /\ \/ Skips("geocode_failed") /\ Last(lookups').outcome = "none"
              \/ Skips("geocode_error") /\ Last(lookups').outcome = "error"
           /\ SkipIsTerminal
           /\ geocode_cache' = geocode_cache
           /\ loc'.payload = loc.payload

C10_Unchanged == Skips("unchanged") => SkipIsTerminal

\* C10: a record is skipped for the first guard that fails in the order
\* missing_day_or_time, virtual_missing_link_or_phone,
\* in_person_missing_address, no_valid_formats, geocode_failed or
\* geocode_error, unchanged; the skip ends the record in that step, with no
\* lookup, cache update, payload or publish after it.
C10_GuardOrder == [][C10_Early /\ C10_Geocode /\ C10_Unchanged]_vars

\* A record without a known weekday and without any valid format was skipped
\* for the weekday.
C10_Witness ==
    /\ pc = "loop"
    /\ idx = 2
    /\ results[1] = [outcome |-> "skipped", reason |-> "missing_day_or_time"]
    /\ ResolveFormats(wp_items[1], format_key_to_id, allowed_format_ids) = <<>>

C11_Step ==
    /\ (cache_file' # cache_file \/ state_file' # state_file) =>
           /\ pc = "loop"
           /\ idx > Len(wp_items)
           /\ ended' = "finished"
           /\ cache_file' = geocode_cache
           /\ state_file'.fingerprints = fingerprints
    /\ (pc # "idle" /\ ended' = "killed") =>
           (cache_file' = cache_file /\ state_file' = state_file)

C11_NotStoredAlways ==
    pc = "publish" =>
        ~(/\ Locals[wp_items[idx]].wp_key \in DOMAIN state_file.fingerprints
          /\ state_file.fingerprints[Locals[wp_items[idx]].wp_key] = loc.fp[1])

C11_NotStored ==
    (pc = "publish" /\ UniqueId(idx)) =>
        ~(/\ Locals[wp_items[idx]].wp_key \in DOMAIN state_file.fingerprints
          /\ state_file.fingerprints[Locals[wp_items[idx]].wp_key] = loc.fp[1])

\* C11 as stated: the two files are written only in the step after the last
\* record, a killed run leaves them as they were, and a publish is attempted
\* only for a record whose fingerprint is not the one in the state file.
C11_Original == [][C11_Step /\ C11_NotStoredAlways']_vars

\* C11, amended: the two files are written only in the step after the last
\* record, a killed run leaves them as they were, and a publish is attempted
\* for a record whose identifier no other record of the feed carries only
\* when its fingerprint is not the one in the state file.
C11_FilesWrittenAtEnd == [][C11_Step /\ C11_NotStored']_vars

\* The first run was killed; the second, started from the untouched files,
\* is about to publish a record.
C11_Witness ==
    /\ ended = "killed"
    /\ run = 2
    /\ pc = "publish"
    /\ UniqueId(idx)
    /\ state_file = NoStateFile
    /\ cache_file = <<>>

C12_Step ==
    (pc = "idle" /\ run' = run + 1 /\ pc' = "idle") =>
        /\ cache_file' = cache_file
        /\ state_file' = state_file
        /\ results' = <<>>
        /\ lookups' = <<>>
        /\ created' = 0
        /\ failed' = 0
        /\ skipped' = 0
        /\ geocode_cache' = <<>>
        /\ fingerprints' = <<>>

\* C12: a run that fails before the loop (fetch, login or format list) ends
\* with no record processed, no lookup, no publish and both files as they
\* were.
C12_AbortLeavesNothing == [][C12_Step]_vars

\* A run over two records was aborted at its start: nothing is processed and
\* no file exists.
C12_Witness ==
    /\ ended = "aborted"
    /\ run = 1
    /\ pc = "idle"
    /\ Len(wp_items) = 2
    /\ results = <<>>
    /\ state_file = NoStateFile
    /\ cache_file = <<>>

C13_Writes ==
    (pc # "idle" /\ pc' = "idle") =>
        /\ idx > Len(wp_items)
        /\ cache_file' = geocode_cache
        /\ state_file' = [last_run |-> run, created |-> created, skipped |-> skipped,
                          failed |-> failed, skipped_reasons |-> skipped_reasons,
                          failed_reasons |-> failed_reasons, fingerprints |-> fingerprints]

\* C13: when every call returns or raises, a run that has entered the loop
\* reaches its end, whatever the records' outcomes, and the step that ends
\* it comes after the last record and writes the cache file and the state
\* file.
C13_RunReachesEnd ==
    /\ [][C13_Writes]_vars
    /\ \A n \in 1..MaxRuns :
           (pc # "idle" /\ run = n)
               ~> (pc = "idle" /\ ended = "finished" /\ state_file.last_run = n)

\* A run with a skipped record and a failed publish has ended and written
\* its state.
C13_Witness ==
    /\ pc = "idle"
    /\ ended = "finished"
    /\ state_file.last_run = 1
    /\ state_file.skipped = 1
    /\ state_file.failed = 1

\* Coordinate pairs a payload may carry.
Coords == {<<DEFAULT_LAT, DEFAULT_LON>>} \cup GeocodeAnswers

\* The payload with other coordinates.
Moved(payload, c) == [payload EXCEPT !.latitude = c[1], !.longitude = c[2]]

C14_Pure ==
    loc.payload # <<>> =>
        \A c \in Coords :
            payload_fingerprint(Moved(loc.payload[1], c)) = payload_fingerprint(loc.payload[1])

C14_Step ==
    (/\ Assembles
     /\ Locals[wp_items[idx]].wp_key \in DOMAIN fingerprints
     /\ \E c \in Coords :
            fingerprints[Locals[wp_items[idx]].wp_key]
                = payload_fingerprint(Moved(loc'.payload[1], c)))
        => Skips("unchanged")

\* C14: the fingerprint of a payload is the same whatever its coordinates,
\* and a record whose payload differs at most in its coordinates from the
\* payload whose fingerprint is stored for its identifier is skipped as
\* unchanged.
C14_CoordinatesIgnored == [][C14_Step /\ C14_Pure']_vars

\* The same record twice: published with the default coordinates after a
\* lookup without result, then geocoded and skipped as unchanged.
C14_Witness ==
    /\ pc = "loop"
    /\ Len(results) = 2
    /\ results[1].outcome = "created"
    /\ results[2] = [outcome |-> "skipped", reason |-> "unchanged"]
    /\ Len(lookups) = 2
    /\ lookups[1].outcome = "none"
    /\ lookups[2].outcome = "ok"
    /\ loc.payload[1].latitude # DEFAULT_LAT

\* Two digits, a colon, two digits.
IsHHMM(t) ==
    /\ Len(t) = 5
    /\ IsDigit(t[1])
    /\ IsDigit(t[2])
    /\ t[3] = ":"
    /\ IsDigit(t[4])
    /\ IsDigit(t[5])

\* C15 as stated: every payload handed to the publish call has a weekday
\* index in 0..6 and a start time and a duration of the form HH:MM.
C15_Original ==
    pc = "publish" =>
        /\ loc.payload[1].day \in 0..6
        /\ IsHHMM(loc.payload[1].startTime)
        /\ IsHHMM(loc.payload[1].duration)

\* The classification of C18: "internet" in the city, or "zoom" or "teams"
\* in the street or in the map link, letter case ignored.
ClaimedVirtual(obj) ==
    \/ Contains(Lower(obj.kaupunki), <<"i", "n", "t", "e", "r", "n", "e", "t">>)
    \/ Contains(Lower(obj.katuosoite), <<"z", "o", "o", "m">>)
    \/ Contains(Lower(obj.katuosoite), <<"t", "e", "a", "m", "s">>)
    \/ Contains(Lower(obj.karttalinkki), <<"z", "o", "o", "m">>)
    \/ Contains(Lower(obj.karttalinkki), <<"t", "e", "a", "m", "s">>)

\* C18 as stated: a record is handled as virtual exactly when its city
\* contains "internet" or its street or map link contains "zoom" or "teams".
C18_Original ==
    \A i \in 1..Len(results) : Locals[wp_items[i]].virtual <=> ClaimedVirtual(wp_items[i])

LoginEnded == login_pc \notin {"idle", "request"}

\* The step is the return of an http_json call that raised HTTPError.
HttpErrorStep == login_pc = "request" /\ resp'.kind = "HTTPError"

\* The HTTPError is a redirect that names where to go.
RedirectWithLocation ==
    /\ resp'.code \in RedirectCodes
    /\ resp'.Location # <<>>
    /\ resp'.Location[1] # NoUrl

C16_Step ==
    HttpErrorStep =>
        IF RedirectWithLocation /\ Len(requests) <= 3
        THEN /\ login_pc' = "request"
             /\ requests' = Append(requests, urljoin(url, resp'.Location[1]))
        ELSE /\ login_pc' = "HTTPError"
             /\ requests' = requests

C16_AtMostThree ==
    /\ redirects <= 3
    /\ login_pc # "idle" /\ require_scheme(base_url) /\ credentials
         => Len(requests) = redirects + 1

C17_Paging ==
    /\ fetch_pc' = "request" => page' \in {1, page + 1}
    /\ fetch_pc = "request" /\ answer'.kind = "page" =>
          IF answer'.data = <<>>
          THEN fetch_pc' = "returned" /\ items' = items
          ELSE fetch_pc' = "request" /\ page' = page + 1 /\ items' = items \o answer'.data
    /\ fetch_pc = "request" /\ answer'.kind = "HTTPError"
                            /\ answer'.code \notin {400, 404} =>
          fetch_pc' = "raised"

\* A 400 or 404 ends the fetch as end-of-data only beyond the last page.
C17_EndOnlyBeyond ==
    fetch_pc = "request" /\ answer'.kind = "HTTPError" /\ fetch_pc' = "returned" =>
        /\ answer'.code \in {400, 404}
        /\ page > LastPage(source)

\* C17: pages 1, 2, 3, ... are requested in order and their items
\* accumulated; an empty page ends the fetch; a 400 or 404 is treated as
\* end-of-data only on a page beyond the last page; any other HTTP error on
\* any page is fatal.
C17_Original == [][C17_Paging /\ C17_EndOnlyBeyond]_vars

\* The part of C17 about paging alone.
C17_PagingHolds == [][C17_Paging]_vars

\* C19: truncating twice gives what truncating once gives; the result never
\* has more than 512 characters; a text of at most 512 characters comes
\* back unchanged; a longer one becomes its first 511 characters followed by
\* one ellipsis.
C19_TruncateIdempotent ==
    /\ trunc_pc \in {"once", "twice"} =>
          /\ Len(once) <= 512
          /\ Len(comment_in) <= 512 => once = comment_in
          /\ Len(comment_in) > 512 =>
                /\ Len(once) = 512
                /\ \A i \in 1..511 : once[i] = comment_in[i]
                /\ once[512] = Ellipsis
    /\ trunc_pc = "twice" => twice = once

\* A text of more than 512 characters has been truncated twice.
C19_Witness ==
    /\ trunc_pc = "twice"
    /\ Len(comment_in) > 512
    /\ comment_in[512] # Ellipsis
    /\ Len(twice) = 512

RECURSIVE SumOver(_, _)
\* The sum of the counts of a histogram over the keys.
SumOver(d, keys) ==
    IF keys = {} THEN 0
    ELSE LET k == CHOOSE x \in keys : TRUE
         IN  d[k] + SumOver(d, keys \ {k})

Total(d) == SumOver(d, DOMAIN d)

\* While a run is at its k-th record, k - 1 records are counted, and the
\* histograms add up to their counters.
C20_Counted ==
    pc # "idle" =>
        /\ created + skipped + failed = idx - 1
        /\ Total(skipped_reasons) = skipped
        /\ Total(failed_reasons) = failed

\* A step that finishes a record raises exactly one counter, by one.
C20_Step ==
    pc # "idle" /\ idx' = idx + 1 =>
        \/ created' = created + 1 /\ skipped' = skipped /\ failed' = failed
        \/ created' = created /\ skipped' = skipped + 1 /\ failed' = failed
        \/ created' = created /\ skipped' = skipped /\ failed' = failed + 1

\* What a finished run wrote adds up.
C20_Written ==
    state_file.last_run # 0 =>
        /\ state_file.created + state_file.skipped + state_file.failed = Len(wp_items)
        /\ Total(state_file.skipped_reasons) = state_file.skipped
        /\ Total(state_file.failed_reasons) = state_file.failed

\* C20: after the k-th record of a run created + skipped + failed = k, each
\* record having raised exactly one of the three counters; at the end of the
\* run the skip reasons add up to skipped and the fail reasons to failed.
C20_Tally ==
    /\ []C20_Counted
    /\ [][C20_Step]_vars
    /\ []C20_Written

\* A run of two records has ended with one skipped and one failed.
C20_Witness ==
    /\ ended = "finished"
    /\ state_file.last_run = 1
    /\ state_file.skipped = 1
    /\ state_file.failed = 1
    /\ state_file.created = 0

\* Every id the key index holds is a valid id.
IndexInValid ==
    \A k \in DOMAIN format_key_to_id : format_key_to_id[k] \in allowed_format_ids

\* The post-filter leaves the resolved ids of every record of the feed as
\* they are.
FilterKeepsAll ==
    \A i \in 1..Len(wp_items) :
        /\ KeepAllowed(build_format_ids(wp_items[i], format_key_to_id)[1],
                       allowed_format_ids)
             = build_format_ids(wp_items[i], format_key_to_id)[1]
        /\ KeepRemoved(build_format_ids(wp_items[i], format_key_to_id)[1],
                       allowed_format_ids) = <<>>

\* C21: every id the format-key index maps a key to is in the set of valid
\* ids built from the same list, so within a run the post-filter never
\* removes a resolved id and the list of removed ids is always empty.
C21_IndexInvariant ==
    /\ IndexInValid
    /\ FilterKeepsAll
    /\ loc.removed = <<>>

\* A record whose tokens resolved to two ids or more has passed the
\* post-filter and is about to be published.
C21_Witness ==
    /\ pc = "publish"
    /\ Len(build_format_ids(wp_items[idx], format_key_to_id)[1]) >= 2
    /\ loc.format_ids = build_format_ids(wp_items[idx], format_key_to_id)[1]
    /\ loc.removed = <<>>

====
